---- MODULE Spec2Model ----
(***************************************************************************)
(* Creator OS backend: access gate, billing sync, deal pipeline and the    *)
(* comment clustering orchestrator, as a state machine over the tables of  *)
(* the managed database.  One action per request handler; a handler runs   *)
(* to completion (every statement it issues is part of its action).        *)
(*                                                                         *)
(* Time is counted in days.  Tables are functions from the ids present to  *)
(* rows.  `last` is the response of the request handled last, with the     *)
(* number of LLM requests and of database write statements it issued.      *)
(***************************************************************************)
EXTENDS Integers, Sequences, FiniteSets, TLC

VARIABLES now, authUsers, profiles, deals, comments, clusters, cluster_comments,
          integrations, imports, imported, last

vars == <<now, authUsers, profiles, deals, comments, clusters, cluster_comments,
          integrations, imports, imported, last>>

\* The tables of the YouTube import.
youtube_tables == <<integrations, imports, imported>>

(***************************************************************************)
(* Bounds of the model.                                                    *)
(***************************************************************************)
MaxTime == 8

(***************************************************************************)
(* Accounts.  "u0" is an account of auth.users that has no row in          *)
(* public.profiles (it predates the on_auth_user_created trigger).         *)
(***************************************************************************)
LegacyUsers == {"u0"}
SignupUsers == {"u1", "u2"}

Customers == [u \in SignupUsers |-> IF u = "u1" THEN "cus_1" ELSE "cus_2"]

\* subscription.py:44  timedelta(days=7)
TrialDays == 7

\* An optional column: <<>> is NULL, <<v>> is the value v.
Null == <<>>
Some(v) == <<v>>

(***************************************************************************)
(* Responses.                                                              *)
(***************************************************************************)
\* The request of a cluster-comments call and what the LLM answered to it
\* (the other operations leave it at NoReq).
NoReq == [comment_ids |-> {}, min_cluster_size |-> 0, kind |-> "", text |-> <<>>]

Resp(op, user, code, detail) ==
    [op |-> op, user |-> user, code |-> code, detail |-> detail,
     hint |-> "", has_access |-> FALSE, llm |-> 0, writes |-> 0,
     req |-> NoReq, fetched |-> {}, created |-> {}, faulted |-> FALSE,
     body |-> <<>>]

NoResp == Resp("none", "none", 0, "")

(***************************************************************************)
(* query.single().execute() on a filter that matches no row.  The handlers *)
(* test `if not x.data` after it; the PostgREST client raises APIError     *)
(* (PGRST116, "0 rows") instead of returning empty data.  Both outcomes    *)
(* are kept: which one a deployment shows depends on the client library.   *)
(***************************************************************************)
SingleModes == {"no_data", "api_error"}

(***************************************************************************)
(* Access gate                                                             *)
(***************************************************************************)
\* Variant of check_subscription whose trial includes its last instant
\* (now <= trial_end_date).
check_subscription_inclusive(user_id, single_mode) ==
    IF user_id \notin DOMAIN profiles
    THEN [exc |-> IF single_mode = "api_error" THEN "APIError" ELSE "HTTP404",
          has_access |-> FALSE, reason |-> "", trial_days_left |-> 0]
    ELSE LET data == profiles[user_id]
             trial_end_date == data.created_at + TrialDays
         IN  IF data.subscription_status \in {"active", "trialing"}
                /\ data.subscription_tier = "pro"
             THEN [exc |-> "none", has_access |-> TRUE,
                   reason |-> "active_subscription", trial_days_left |-> 0]
             ELSE IF now <= trial_end_date
             THEN [exc |-> "none", has_access |-> TRUE, reason |-> "free_trial",
                   trial_days_left |-> trial_end_date - now]
             ELSE [exc |-> "none", has_access |-> FALSE,
                   reason |-> "trial_expired", trial_days_left |-> 0]

\* Variant of check_subscription that takes only the status "active" for a
\* paid subscription.
check_subscription_active_only(user_id, single_mode) ==
    IF user_id \notin DOMAIN profiles
    THEN [exc |-> IF single_mode = "api_error" THEN "APIError" ELSE "HTTP404",
          has_access |-> FALSE, reason |-> "", trial_days_left |-> 0]
    ELSE LET data == profiles[user_id]
             trial_end_date == data.created_at + TrialDays
         IN  IF data.subscription_status = "active" /\ data.subscription_tier = "pro"
             THEN [exc |-> "none", has_access |-> TRUE,
                   reason |-> "active_subscription", trial_days_left |-> 0]
             ELSE IF now < trial_end_date
             THEN [exc |-> "none", has_access |-> TRUE, reason |-> "free_trial",
                   trial_days_left |-> trial_end_date - now]
             ELSE [exc |-> "none", has_access |-> FALSE,
                   reason |-> "trial_expired", trial_days_left |-> 0]

\* Variant of check_subscription that counts the trial from the last UPDATE
\* of the profile row instead of its creation.
check_subscription_from_update(user_id, single_mode) ==
    IF user_id \notin DOMAIN profiles
    THEN [exc |-> IF single_mode = "api_error" THEN "APIError" ELSE "HTTP404",
          has_access |-> FALSE, reason |-> "", trial_days_left |-> 0]
    ELSE LET data == profiles[user_id]
             trial_end_date == data.updated_at[1] + TrialDays
         IN  IF data.subscription_status \in {"active", "trialing"}
                /\ data.subscription_tier = "pro"
             THEN [exc |-> "none", has_access |-> TRUE,
                   reason |-> "active_subscription", trial_days_left |-> 0]
             ELSE IF now < trial_end_date
             THEN [exc |-> "none", has_access |-> TRUE, reason |-> "free_trial",
                   trial_days_left |-> trial_end_date - now]
             ELSE [exc |-> "none", has_access |-> FALSE,
                   reason |-> "trial_expired", trial_days_left |-> 0]

\* middleware/subscription.py check_subscription.  exc = "none": the value
\* returned; otherwise the exception that leaves the function.
check_subscription(user_id, single_mode) ==
    IF user_id \notin DOMAIN profiles
    THEN IF single_mode = "api_error"
         THEN [exc |-> "APIError", has_access |-> FALSE, reason |-> "",
               trial_days_left |-> 0]
         ELSE [exc |-> "HTTP404", has_access |-> FALSE,
               reason |-> "User profile not found", trial_days_left |-> 0]
    ELSE LET data == profiles[user_id]
             trial_end_date == data.created_at + TrialDays
         IN  IF data.subscription_status \in {"active", "trialing"}
                /\ data.subscription_tier = "pro"
             THEN [exc |-> "none", has_access |-> TRUE,
                   reason |-> "active_subscription", trial_days_left |-> 0]
             ELSE IF now < trial_end_date
             THEN [exc |-> "none", has_access |-> TRUE, reason |-> "free_trial",
                   trial_days_left |-> trial_end_date - now]
             ELSE [exc |-> "none", has_access |-> FALSE,
                   reason |-> "trial_expired", trial_days_left |-> 0]

\* Variant of verify_subscription that lets a denied account through.
verify_subscription_open(user_id, single_mode) ==
    LET result == check_subscription(user_id, single_mode) IN
    IF result.exc = "HTTP404" THEN [code |-> 404, detail |-> result.reason, hint |-> ""]
    ELSE IF result.exc = "APIError" THEN [code |-> 500, detail |-> "Internal Server Error", hint |-> ""]
    ELSE [code |-> 200, detail |-> result.reason, hint |-> ""]

\* routers/ai.py verify_subscription (a FastAPI dependency).  code = 200: the
\* handler body runs; otherwise the response of the request.  An exception
\* that is no HTTPException leaves the dependency and is answered with 500.
verify_subscription(user_id, single_mode) ==
    LET result == check_subscription(user_id, single_mode) IN
    IF result.exc = "HTTP404" THEN [code |-> 404, detail |-> result.reason, hint |-> ""]
    ELSE IF result.exc = "APIError" THEN [code |-> 500, detail |-> "Internal Server Error", hint |-> ""]
    ELSE IF ~result.has_access
    THEN [code |-> 402, detail |-> "subscription_required", hint |-> "/pricing"]
    ELSE [code |-> 200, detail |-> result.reason, hint |-> ""]

\* routers/auth.py get_current_user: a token is valid for an existing account.
Authenticated(user_id) == user_id \in authUsers

Unauthorized(op, user_id) ==
    /\ last' = Resp(op, user_id, 401, "Authentication failed")
    /\ UNCHANGED <<youtube_tables, now, authUsers, profiles, deals, comments, clusters, cluster_comments>>

(***************************************************************************)
(* Initial state: an empty database, one legacy account.                   *)
(***************************************************************************)
Init ==
    /\ now = 0
    /\ authUsers = LegacyUsers
    /\ profiles = <<>>
    /\ deals = <<>>
    /\ comments = <<>>
    /\ clusters = <<>>
    /\ cluster_comments = <<>>
    /\ integrations = <<>>
    /\ imports = <<>>
    /\ imported = <<>>
    /\ last = NoResp

\* The clock.
TickUntil(limit) ==
    /\ now < limit
    /\ now' = now + 1
    /\ UNCHANGED <<youtube_tables, authUsers, profiles, deals, comments, clusters,
                 cluster_comments, last>>

Tick == TickUntil(MaxTime)

\* routers/auth.py signup: auth.sign_up creates the account; the trigger
\* on_auth_user_created (database.py handle_new_user) inserts the profile
\* row with the column defaults.
NewProfile ==
    [created_at |-> now, updated_at |-> Some(now),
     subscription_status |-> "none", subscription_tier |-> "free",
     stripe_customer_id |-> "", trial_ends_at |-> Null]

Signup(u) ==
    /\ u \in SignupUsers
    /\ u \notin authUsers
    /\ authUsers' = authUsers \cup {u}
    /\ profiles' = (u :> NewProfile) @@ profiles
    /\ last' = Resp("signup", u, 201, "")
    /\ UNCHANGED <<youtube_tables, now, deals, comments, clusters, cluster_comments>>

\* routers/stripe.py get_trial_status: GET /trial-status returns the gate's
\* result as it is.
TrialStatus(u, single_mode) ==
    IF ~Authenticated(u) THEN Unauthorized("trial_status", u)
    ELSE LET r == check_subscription(u, single_mode) IN
         /\ last' = IF r.exc = "HTTP404" THEN Resp("trial_status", u, 404, r.reason)
                    ELSE IF r.exc = "APIError" THEN Resp("trial_status", u, 500, "Internal Server Error")
                    ELSE [Resp("trial_status", u, 200, r.reason)
                          EXCEPT !.has_access = r.has_access]
         /\ UNCHANGED <<youtube_tables, now, authUsers, profiles, deals, comments, clusters, cluster_comments>>

(***************************************************************************)
(* Billing sync (routers/stripe.py)                                        *)
(***************************************************************************)
\* An UPDATE of public.profiles: the BEFORE UPDATE trigger
\* update_profiles_updated_at sets updated_at = NOW() on every row it
\* touches.  `fields` maps the assigned columns to their new values.
update_profile(id, fields) ==
    IF id \notin DOMAIN profiles THEN profiles
    ELSE [profiles EXCEPT ![id] =
            [c \in DOMAIN @ |->
                IF c \in DOMAIN fields THEN fields[c]
                ELSE IF c = "updated_at" THEN Some(now)
                ELSE @[c]]]

\* The rows a filter on stripe_customer_id selects.
profiles_by_customer(customer_id) ==
    {u \in DOMAIN profiles : profiles[u].stripe_customer_id = customer_id}

\* create_checkout_session: stores the Stripe customer id on the profile
\* the first time.  stripe_outcome is the payment provider's behaviour.
StripeOutcomes == {"ok", "customer_error", "session_error"}

CreateCheckoutSession(u, single_mode, stripe_outcome) ==
    IF ~Authenticated(u) THEN Unauthorized("create_checkout_session", u)
    ELSE IF u \notin DOMAIN profiles /\ single_mode = "api_error"
    THEN /\ last' = Resp("create_checkout_session", u, 500, "Failed to create checkout")
         /\ UNCHANGED <<youtube_tables, now, authUsers, profiles, deals, comments, clusters, cluster_comments>>
    ELSE LET has_customer == u \in DOMAIN profiles /\ profiles[u].stripe_customer_id # ""
             new_customer == IF u \in SignupUsers THEN Customers[u] ELSE "cus_0"
         IN
         IF ~has_customer /\ stripe_outcome = "customer_error"
         THEN /\ last' = Resp("create_checkout_session", u, 400, "StripeError")
              /\ UNCHANGED <<youtube_tables, now, authUsers, profiles, deals, comments, clusters, cluster_comments>>
         ELSE /\ profiles' = IF has_customer THEN profiles
                             ELSE update_profile(u, [stripe_customer_id |-> new_customer])
              /\ last' = [Resp("create_checkout_session", u,
                               IF stripe_outcome = "session_error" THEN 400 ELSE 200,
                               IF stripe_outcome = "session_error" THEN "StripeError" ELSE "checkout_url")
                          EXCEPT !.writes = IF has_customer THEN 0 ELSE 1]
              /\ UNCHANGED <<youtube_tables, now, authUsers, deals, comments, clusters, cluster_comments>>

\* The webhook deliveries of the model.  sig: whether the request verifies
\* against the signing secret (signature and payload); json: whether the
\* body is JSON at all; user_id: metadata.user_id of a checkout session
\* ("" when absent); customer, status: of a subscription object.
EventStatuses == {"active", "trialing", "past_due", "canceled"}
EventCustomers == {"cus_1", "cus_x"}
EventUsers == {"", "u0", "u1"}

\* The fields a handler does not read are left at one value.
WebhookEvents ==
    [type : {"checkout.session.completed"}, user_id : EventUsers,
     customer : {"cus_x"}, status : {"active"}]
    \cup [type : {"customer.subscription.updated"}, user_id : {""},
          customer : EventCustomers, status : EventStatuses]
    \cup [type : {"customer.subscription.deleted"}, user_id : {""},
          customer : EventCustomers, status : {"canceled"}]
    \cup [type : {"invoice.paid"}, user_id : {""},
          customer : {"cus_x"}, status : {"active"}]

\* How a delivery arrives: whether a signing secret is configured, whether
\* the signature verifies, whether the body is JSON.
Deliveries ==
    {[secret |-> TRUE, sig |-> TRUE, json |-> TRUE],
     [secret |-> TRUE, sig |-> FALSE, json |-> TRUE],
     [secret |-> TRUE, sig |-> TRUE, json |-> FALSE],
     [secret |-> FALSE, sig |-> FALSE, json |-> TRUE],
     [secret |-> FALSE, sig |-> FALSE, json |-> FALSE]}

\* Variant of webhook_accepts that does not look at the signature.
webhook_accepts_unsigned(secret_configured, sig_ok, json_ok) == json_ok

\* stripe_webhook, lines 133-147: the event is built from the request, or
\* the request is refused with 400.
webhook_accepts(secret_configured, sig_ok, json_ok) ==
    IF secret_configured THEN sig_ok /\ json_ok ELSE json_ok

\* Variant of webhook_profiles whose subscription.deleted branch leaves the
\* tier as it is.
webhook_profiles_keep_tier(event) ==
    IF event.type = "checkout.session.completed"
    THEN IF event.user_id # ""
         THEN update_profile(event.user_id,
                [subscription_status |-> "trialing", subscription_tier |-> "pro",
                 trial_ends_at |-> Some(now)])
         ELSE profiles
    ELSE IF event.type = "customer.subscription.updated"
    THEN IF profiles_by_customer(event.customer) # {}
         THEN update_profile(CHOOSE u \in profiles_by_customer(event.customer) : TRUE,
                [subscription_status |-> event.status,
                 subscription_tier |-> IF event.status \in {"active", "trialing"}
                                       THEN "pro" ELSE "free"])
         ELSE profiles
    ELSE IF event.type = "customer.subscription.deleted"
    THEN IF profiles_by_customer(event.customer) # {}
         THEN update_profile(CHOOSE u \in profiles_by_customer(event.customer) : TRUE,
                [subscription_status |-> "cancelled"])
         ELSE profiles
    ELSE profiles

\* stripe_webhook, lines 152-187: the profiles table after the event.
webhook_profiles(event) ==
    IF event.type = "checkout.session.completed"
    THEN IF event.user_id # ""
         THEN update_profile(event.user_id,
                [subscription_status |-> "trialing", subscription_tier |-> "pro",
                 trial_ends_at |-> Some(now)])
         ELSE profiles
    ELSE IF event.type = "customer.subscription.updated"
    THEN IF profiles_by_customer(event.customer) # {}
         THEN update_profile(CHOOSE u \in profiles_by_customer(event.customer) : TRUE,
                [subscription_status |-> event.status,
                 subscription_tier |-> IF event.status \in {"active", "trialing"}
                                       THEN "pro" ELSE "free"])
         ELSE profiles
    ELSE IF event.type = "customer.subscription.deleted"
    THEN IF profiles_by_customer(event.customer) # {}
         THEN update_profile(CHOOSE u \in profiles_by_customer(event.customer) : TRUE,
                [subscription_status |-> "cancelled", subscription_tier |-> "free"])
         ELSE profiles
    ELSE profiles

\* Whether the handler issues an UPDATE for the event.
webhook_writes(event) ==
    IF event.type = "checkout.session.completed" THEN event.user_id # ""
    ELSE IF event.type \in {"customer.subscription.updated", "customer.subscription.deleted"}
    THEN profiles_by_customer(event.customer) # {}
    ELSE FALSE

\* Whether the handler's lookup by customer id selects no row.
webhook_lookup_misses(event) ==
    /\ event.type \in {"customer.subscription.updated", "customer.subscription.deleted"}
    /\ profiles_by_customer(event.customer) = {}

\* The response of a delivery.  req: the event delivered, how it arrived,
\* and whether the delivery repeats the request answered last (the
\* identical event, accepted both times).
WebhookResp(event, delivery, code, detail, writes) ==
    [Resp("stripe_webhook", event.customer, code, detail)
     EXCEPT !.writes = writes,
            !.req = [event |-> event, delivery |-> delivery,
                     replay |-> /\ code = 200
                                /\ last.op = "stripe_webhook"
                                /\ last.code = 200
                                /\ last.req.event = event]]

StripeWebhook(event, secret_configured, sig_ok, json_ok, single_mode) ==
    LET delivery == [secret |-> secret_configured, sig |-> sig_ok, json |-> json_ok] IN
    IF ~webhook_accepts(secret_configured, sig_ok, json_ok)
    THEN /\ last' = WebhookResp(event, delivery, 400,
                         IF secret_configured /\ json_ok THEN "Invalid signature"
                         ELSE "Invalid payload", 0)
         /\ UNCHANGED <<youtube_tables, now, authUsers, profiles, deals, comments, clusters, cluster_comments>>
    ELSE IF webhook_lookup_misses(event) /\ single_mode = "api_error"
    THEN /\ last' = WebhookResp(event, delivery, 500, "Internal Server Error", 0)
         /\ UNCHANGED <<youtube_tables, now, authUsers, profiles, deals, comments, clusters, cluster_comments>>
    ELSE /\ profiles' = webhook_profiles(event)
         /\ last' = WebhookResp(event, delivery, 200, "success",
                                IF webhook_writes(event) THEN 1 ELSE 0)
         /\ UNCHANGED <<youtube_tables, now, authUsers, deals, comments, clusters, cluster_comments>>

(***************************************************************************)
(* Comments (routers/comments.py)                                          *)
(***************************************************************************)
MaxComments == 3

\* A text is a sequence of characters.
Lower(ch) == IF ch = "A" THEN "a" ELSE IF ch = "B" THEN "b" ELSE ch
lower(text) == [i \in 1..Len(text) |-> Lower(text[i])]

\* Python's `s in t` on strings.
is_substring(s, t) ==
    \E i \in 1..(Len(t) + 1) :
        /\ i + Len(s) - 1 <= Len(t)
        /\ SubSeq(t, i, i + Len(s) - 1) = s

\* The comment a request carries: (platform, content).
OneCommentInput == {[platform |-> "instagram", content |-> <<"A", "b">>]}

\* uuid_generate_v4(): an id no row has had.  Rows are never deleted in the
\* actions of this module, so the next free number is fresh.
new_comment_id == Cardinality(DOMAIN comments) + 1

\* create_comment: one INSERT.  comments.user_id references profiles(id):
\* the insert of an account without a profile row fails (400).
CreateComment(u, c) ==
    IF ~Authenticated(u) THEN Unauthorized("create_comment", u)
    ELSE IF u \notin DOMAIN profiles
    THEN /\ last' = Resp("create_comment", u, 400, "Failed to create comment")
         /\ UNCHANGED <<youtube_tables, now, authUsers, profiles, deals, comments, clusters, cluster_comments>>
    ELSE /\ Cardinality(DOMAIN comments) < MaxComments
         /\ comments' = (new_comment_id :>
                            [user_id |-> u, platform |-> c.platform, content |-> c.content,
                             import_id |-> "", sentiment |-> "", cluster_id |-> 0,
                             is_processed |-> FALSE]) @@ comments
         /\ last' = [Resp("create_comment", u, 201, "") EXCEPT !.writes = 1]
         /\ UNCHANGED <<youtube_tables, now, authUsers, profiles, deals, clusters, cluster_comments>>

(***************************************************************************)
(* The hosted LLM (routers/ai.py call_groq) and its answers                *)
(***************************************************************************)
\* An answer is a sequence of tokens: "fence" is ```, "json" the word json,
\* "ws" white space, "obj" the text of a JSON object, "arr" the text of a
\* JSON value that is no object, "junk" anything else.  What the JSON
\* object holds is the answer's payload.
strip_left(t) ==
    LET n == Len(t)
        k == IF \A i \in 1..n : t[i] = "ws" THEN n + 1
             ELSE CHOOSE i \in 1..n : t[i] # "ws" /\ \A j \in 1..(i - 1) : t[j] = "ws"
    IN  SubSeq(t, k, n)

strip_right(t) ==
    LET n == Len(t)
        k == IF \A i \in 1..n : t[i] = "ws" THEN 0
             ELSE CHOOSE i \in 1..n : t[i] # "ws" /\ \A j \in (i + 1)..n : t[j] = "ws"
    IN  SubSeq(t, 1, k)

\* str.strip()
strip(t) == strip_right(strip_left(t))

\* str.startswith(tok)
startswith(t, tok) == Len(t) > 0 /\ t[1] = tok

\* `tok in text`
has_token(t, tok) == \E i \in 1..Len(t) : t[i] = tok

\* text.split("```")[1]: what stands between the first fence and the next
\* one (or the end).  Defined when the text holds a fence.
split_fence_1(t) ==
    LET n == Len(t)
        a == CHOOSE i \in 1..n : t[i] = "fence" /\ \A j \in 1..(i - 1) : t[j] # "fence"
        later == {i \in (a + 1)..n : t[i] = "fence"}
        b == IF later = {} THEN n + 1
             ELSE CHOOSE i \in later : \A j \in later : i <= j
    IN  SubSeq(t, a + 1, b - 1)

\* text.replace("json", "")
remove_json(t) == SelectSeq(t, LAMBDA x : x # "json")

\* json.loads: "ok" with the kind of value parsed, or JSONDecodeError.
json_loads(t) ==
    IF t = <<"obj">> THEN "object"
    ELSE IF t = <<"arr">> THEN "non_object"
    ELSE "JSONDecodeError"

\* cluster_comments, lines 379-385: the cleaning before json.loads.
clean_cluster_response(response_text) ==
    LET c1 == strip(response_text)
        c2 == IF startswith(c1, "fence")
              THEN LET part == split_fence_1(c1)
                   IN  IF startswith(part, "json") THEN Tail(part) ELSE part
              ELSE c1
    IN  strip(c2)

\* generate_insight_brief, lines 545-548, and analyze_sentiment, lines
\* 589-592.
clean_inline_response(response_text) ==
    LET c1 == strip(response_text)
    IN  IF has_token(c1, "fence") THEN strip(remove_json(split_fence_1(c1))) ELSE c1

\* call_groq: the status of the failure it raises, or 200 and the text.
\* "not_configured": no GROQ_API_KEY, no request is sent.
LlmKinds == {"ok", "not_configured", "http_error", "timeout"}

call_groq_code(kind) ==
    IF kind = "ok" THEN 200
    ELSE IF kind = "timeout" THEN 504
    ELSE 503

call_groq_requests(kind) == IF kind = "not_configured" THEN 0 ELSE 1

\* The answers of the model.
ResponseTexts ==
    {<<"obj">>,
     <<"ws", "obj", "ws">>,
     <<"fence", "json", "ws", "obj", "ws", "fence">>,
     <<"fence", "ws", "obj", "fence", "junk">>,
     <<"fence", "obj">>,
     <<"junk", "fence", "json", "obj", "fence">>,
     <<"obj", "junk">>,
     <<"json", "obj">>,
     <<"junk">>,
     <<>>,
     <<"arr">>}

(***************************************************************************)
(* AI endpoints without clustering (routers/ai.py)                         *)
(***************************************************************************)
Gated(op, u, gate) ==
    /\ last' = [Resp(op, u, gate.code, gate.detail) EXCEPT !.hint = gate.hint]
    /\ UNCHANGED <<youtube_tables, now, authUsers, profiles, deals, comments, clusters, cluster_comments>>

\* generate_pitch: one LLM request, no write.
GeneratePitch(u, single_mode, kind) ==
    IF ~Authenticated(u) THEN Unauthorized("generate_pitch", u)
    ELSE LET gate == verify_subscription(u, single_mode) IN
         IF gate.code # 200 THEN Gated("generate_pitch", u, gate)
         ELSE /\ last' = [Resp("generate_pitch", u, call_groq_code(kind),
                               IF kind = "ok" THEN "pitch" ELSE "AI service error")
                          EXCEPT !.llm = call_groq_requests(kind)]
              /\ UNCHANGED <<youtube_tables, now, authUsers, profiles, deals, comments, clusters, cluster_comments>>

\* generate_insight_brief: reads, one LLM request, no write; an answer
\* that does not parse is returned as the summary (200).
GenerateBrief(u, single_mode, kind, text) ==
    IF ~Authenticated(u) THEN Unauthorized("generate_brief", u)
    ELSE LET gate == verify_subscription(u, single_mode) IN
         IF gate.code # 200 THEN Gated("generate_brief", u, gate)
         ELSE /\ last' = [Resp("generate_brief", u, call_groq_code(kind),
                               IF kind # "ok" THEN "AI service error"
                               ELSE IF json_loads(clean_inline_response(text)) = "object"
                               THEN "brief" ELSE "raw_summary")
                          EXCEPT !.llm = call_groq_requests(kind)]
              /\ UNCHANGED <<youtube_tables, now, authUsers, profiles, deals, comments, clusters, cluster_comments>>

\* analyze_sentiment.  sentiments: the "sentiments" object of the answer, a
\* function from comment ids to labels.
Sentiments == {"positive", "negative", "neutral", "question"}

apply_sentiments(u, sentiments) ==
    [id \in DOMAIN comments |->
        IF /\ id \in DOMAIN sentiments
           /\ sentiments[id] \in Sentiments
           /\ comments[id].user_id = u
        THEN [comments[id] EXCEPT !.sentiment = sentiments[id]]
        ELSE comments[id]]

AnalyzeSentiment(u, comment_ids, single_mode, kind, text, sentiments) ==
    IF ~Authenticated(u) THEN Unauthorized("analyze_sentiment", u)
    ELSE LET gate == verify_subscription(u, single_mode)
             found == {id \in DOMAIN comments :
                          comments[id].user_id = u /\ id \in comment_ids}
         IN
         IF gate.code # 200 THEN Gated("analyze_sentiment", u, gate)
         ELSE IF found = {}
         THEN /\ last' = Resp("analyze_sentiment", u, 404, "No comments found")
              /\ UNCHANGED <<youtube_tables, now, authUsers, profiles, deals, comments, clusters, cluster_comments>>
         ELSE IF kind # "ok"
         THEN /\ last' = [Resp("analyze_sentiment", u, call_groq_code(kind), "AI service error")
                          EXCEPT !.llm = call_groq_requests(kind)]
              /\ UNCHANGED <<youtube_tables, now, authUsers, profiles, deals, comments, clusters, cluster_comments>>
         ELSE IF json_loads(clean_inline_response(text)) # "object"
         THEN /\ last' = [Resp("analyze_sentiment", u, 500, "Failed to parse")
                          EXCEPT !.llm = 1]
              /\ UNCHANGED <<youtube_tables, now, authUsers, profiles, deals, comments, clusters, cluster_comments>>
         ELSE /\ comments' = apply_sentiments(u, sentiments)
              /\ last' = [Resp("analyze_sentiment", u, 200, "updated")
                          EXCEPT !.llm = 1,
                                 !.writes = Cardinality({id \in DOMAIN sentiments :
                                                sentiments[id] \in Sentiments})]
              /\ UNCHANGED <<youtube_tables, now, authUsers, profiles, deals, clusters, cluster_comments>>

(***************************************************************************)
(* Clustering orchestrator (routers/ai.py cluster_comments)                *)
(***************************************************************************)
\* query.limit(500) and comments[:200], scaled down so that the model
\* reaches both limits; only SendLimit < FetchLimit matters.
FetchLimit == 2
SendLimit == 1
\* sample_texts[:5] and cluster_comments_list[:5]
SampleLimit == 5

Min(a, b) == IF a < b THEN a ELSE b

RECURSIVE sorted(_)
sorted(S) ==
    IF S = {} THEN <<>>
    ELSE LET m == CHOOSE x \in S : \A y \in S : x <= y
         IN  <<m>> \o sorted(S \ {m})

\* Lines 329-335: the rows the query selects before the limit.
fetch_matching(user_id, req) ==
    {id \in DOMAIN comments :
        /\ comments[id].user_id = user_id
        /\ IF req.comment_ids # {} THEN id \in req.comment_ids
           ELSE ~comments[id].is_processed}

\* Line 336: limit(500) without ORDER BY keeps any FetchLimit of the rows.
Fetches(user_id, req) ==
    LET all == fetch_matching(user_id, req)
    IN  {F \in SUBSET all : Cardinality(F) = Min(FetchLimit, Cardinality(all))}

\* Lines 348-350: the comments that get an index in the prompt.
comments_for_ai(fetched) == SubSeq(fetched, 1, Min(SendLimit, Len(fetched)))

\* An element of sample_comment_indices: a JSON integer, a JSON boolean
\* (Python's bool is an int: true is 1, false is 0) or another value.
IntIdx(v) == [kind |-> "int", v |-> v]
NotInt == [kind |-> "other", v |-> 0]

\* Line 405: isinstance(idx, int) and 0 <= idx < len(comments)
index_maps(idx, n) == idx.kind \in {"int", "bool"} /\ 0 <= idx.v /\ idx.v < n

\* Lines 404-412
RECURSIVE map_indices(_, _)
map_indices(indices, fetched) ==
    IF indices = <<>> THEN <<>>
    ELSE LET idx == Head(indices)
             rest == map_indices(Tail(indices), fetched)
         IN  IF index_maps(idx, Len(fetched)) THEN <<fetched[idx.v + 1]>> \o rest
             ELSE rest

\* Line 419
text_match(sample, content) ==
    \/ is_substring(lower(sample), lower(content))
    \/ is_substring(lower(content), lower(sample))

\* Lines 418-426: the first fetched comment the sample matches, if any.
first_match(sample, fetched, rows) ==
    LET hits == {i \in 1..Len(fetched) : text_match(sample, rows[fetched[i]].content)}
    IN  IF hits = {} THEN <<>>
        ELSE <<fetched[CHOOSE i \in hits : \A j \in hits : i <= j]>>

RECURSIVE match_samples(_, _, _)
match_samples(samples, fetched, rows) ==
    IF samples = <<>> THEN <<>>
    ELSE first_match(Head(samples), fetched, rows)
            \o match_samples(Tail(samples), fetched, rows)

\* Lines 396-426: cluster_comment_ids of one group of the answer.
member_ids(g, fetched, rows) ==
    LET by_index == map_indices(g.indices, fetched)
    IN  IF by_index # <<>> THEN by_index
        ELSE match_samples(SubSeq(g.samples, 1, Min(SampleLimit, Len(g.samples))),
                           fetched, rows)

\* Lines 429-433: Counter(cluster_platforms).most_common(1): the most
\* frequent platform, the one met first among equals.
primary_platform(ids, rows) ==
    IF ids = <<>> THEN ""
    ELSE LET plat(i) == rows[ids[i]].platform
             count(p) == Cardinality({i \in 1..Len(ids) : plat(i) = p})
             first(p) == CHOOSE i \in 1..Len(ids) :
                            plat(i) = p /\ \A j \in 1..(i - 1) : plat(j) # p
             best == CHOOSE i \in 1..Len(ids) :
                        /\ first(plat(i)) = i
                        /\ \A j \in 1..Len(ids) :
                              \/ count(plat(j)) < count(plat(i))
                              \/ count(plat(j)) = count(plat(i)) /\ i <= first(plat(j))
         IN  plat(best)

\* Line 456
comment_count(ids, g) == IF ids # <<>> THEN Len(ids) ELSE Len(g.samples)

\* Lines 450-461: the cluster row of a group.
cluster_row(user_id, g, ids, rows) ==
    [user_id |-> user_id, theme |-> g.theme,
     sample_comments |-> [i \in 1..Min(SampleLimit, Len(ids)) |-> rows[ids[i]].content],
     comment_count |-> comment_count(ids, g), is_active |-> TRUE,
     primary_platform |-> primary_platform(ids, rows),
     platforms |-> {rows[ids[i]].platform : i \in 1..Len(ids)},
     import_ids |-> {rows[ids[i]].import_id : i \in 1..Len(ids)} \ {""},
     created_at |-> now]

\* The database faults of one run: the group whose cluster insert raises
\* (0: none), the groups whose insert returns no row, whose membership
\* insert raises, whose cluster_id update raises, and whether the final
\* is_processed update raises.
NoFaults ==
    [insert_raises |-> 0, insert_empty |-> {}, members_fail |-> {},
     update_fail |-> {}, final_fail |-> FALSE]

\* Variant of group_writes in which a failed membership insert is not caught:
\* the exception ends the loop after the cluster insert.
group_writes_uncaught(st, k, g, fetched, user_id, faults) ==
    LET ids == member_ids(g, fetched, st.comments)
        cluster_id == Len(st.clusters) + 1
        relations == [i \in 1..Len(ids) |->
                        [cluster_id |-> cluster_id, comment_id |-> ids[i]]]
        update_ok == ids # <<>> /\ k \notin faults.update_fail
    IN  IF ids # <<>> /\ k \in faults.members_fail
        THEN [st EXCEPT !.clusters = Append(@, cluster_row(user_id, g, ids, st.comments)),
                        !.created = @ \cup {cluster_id}, !.writes = @ + 2,
                        !.raised = TRUE]
        ELSE [clusters |-> Append(st.clusters, cluster_row(user_id, g, ids, st.comments)),
              cluster_comments |->
                 IF ids # <<>> THEN st.cluster_comments \o relations
                 ELSE st.cluster_comments,
              comments |->
                 IF update_ok
                 THEN [id \in DOMAIN st.comments |->
                         IF \E i \in 1..Len(ids) : ids[i] = id
                         THEN [st.comments[id] EXCEPT !.cluster_id = cluster_id]
                         ELSE st.comments[id]]
                 ELSE st.comments,
              created |-> st.created \cup {cluster_id},
              writes |-> st.writes + 1 + (IF ids # <<>> THEN 2 ELSE 0),
              raised |-> FALSE]

\* Variant of group_writes whose cluster_id update leaves alone the comments
\* that already carry a cluster_id.
group_writes_keep_first(st, k, g, fetched, user_id, faults) ==
    LET ids == member_ids(g, fetched, st.comments)
        cluster_id == Len(st.clusters) + 1
        relations == [i \in 1..Len(ids) |->
                        [cluster_id |-> cluster_id, comment_id |-> ids[i]]]
        members_ok == ids # <<>> /\ k \notin faults.members_fail
        update_ok == ids # <<>> /\ k \notin faults.update_fail
    IN  [clusters |-> Append(st.clusters, cluster_row(user_id, g, ids, st.comments)),
         cluster_comments |->
            IF members_ok THEN st.cluster_comments \o relations
            ELSE st.cluster_comments,
         comments |->
            IF update_ok
            THEN [id \in DOMAIN st.comments |->
                    IF (\E i \in 1..Len(ids) : ids[i] = id) /\ st.comments[id].cluster_id = 0
                    THEN [st.comments[id] EXCEPT !.cluster_id = cluster_id]
                    ELSE st.comments[id]]
            ELSE st.comments,
         created |-> st.created \cup {cluster_id},
         writes |-> st.writes + 1 + (IF ids # <<>> THEN 2 ELSE 0),
         raised |-> FALSE]

\* Lines 463-484 for group k: the tables after the cluster insert, the
\* membership insert and the cluster_id update.
group_writes(st, k, g, fetched, user_id, faults) ==
    LET ids == member_ids(g, fetched, st.comments)
        cluster_id == Len(st.clusters) + 1
        relations == [i \in 1..Len(ids) |->
                        [cluster_id |-> cluster_id, comment_id |-> ids[i]]]
        members_ok == ids # <<>> /\ k \notin faults.members_fail
        update_ok == ids # <<>> /\ k \notin faults.update_fail
    IN  [clusters |-> Append(st.clusters, cluster_row(user_id, g, ids, st.comments)),
         cluster_comments |->
            IF members_ok THEN st.cluster_comments \o relations
            ELSE st.cluster_comments,
         comments |->
            IF update_ok
            THEN [id \in DOMAIN st.comments |->
                    IF \E i \in 1..Len(ids) : ids[i] = id
                    THEN [st.comments[id] EXCEPT !.cluster_id = cluster_id]
                    ELSE st.comments[id]]
            ELSE st.comments,
         created |-> st.created \cup {cluster_id},
         writes |-> st.writes + 1 + (IF ids # <<>> THEN 2 ELSE 0),
         raised |-> FALSE]

\* Lines 394-497: the loop over the groups of the answer, from group k on.
RECURSIVE run_groups(_, _, _, _, _, _)
run_groups(st, groups, k, fetched, user_id, faults) ==
    IF k > Len(groups) \/ st.raised THEN st
    ELSE IF faults.insert_raises = k
    THEN [st EXCEPT !.raised = TRUE, !.writes = @ + 1]
    ELSE IF k \in faults.insert_empty
    THEN run_groups([st EXCEPT !.writes = @ + 1], groups, k + 1, fetched, user_id, faults)
    ELSE run_groups(group_writes(st, k, groups[k], fetched, user_id, faults),
                    groups, k + 1, fetched, user_id, faults)

\* Variant of mark_processed that marks only the comments sent to the LLM.
mark_processed_sent(rows, fetched) ==
    [id \in DOMAIN rows |->
        IF \E i \in 1..Len(comments_for_ai(fetched)) : fetched[i] = id
        THEN [rows[id] EXCEPT !.is_processed = TRUE]
        ELSE rows[id]]

\* Lines 499-501
mark_processed(rows, fetched) ==
    [id \in DOMAIN rows |->
        IF \E i \in 1..Len(fetched) : fetched[i] = id
        THEN [rows[id] EXCEPT !.is_processed = TRUE]
        ELSE rows[id]]

ClusterResp(u, req, code, detail, llm) ==
    [Resp("cluster_comments", u, code, detail) EXCEPT !.req = req, !.llm = llm]

\* Variant of too_few that lets one comment less through.
too_few_lenient(fetched, req) == Len(fetched) + 1 < req.min_cluster_size

\* Line 341: len(comments) < request.min_cluster_size
too_few(fetched, req) == Len(fetched) < req.min_cluster_size

\* Variant of parse_failure that marks the fetched comments processed before
\* it answers.
parse_failure_marks(u, req, fetched) ==
    /\ last' = [ClusterResp(u, req, 500, "Failed to parse AI response", 1)
                EXCEPT !.fetched = {fetched[i] : i \in 1..Len(fetched)}, !.writes = 1]
    /\ comments' = mark_processed(comments, fetched)
    /\ UNCHANGED <<clusters, cluster_comments>>

\* Lines 386-390: json.loads raised JSONDecodeError; the handler answers
\* 500 and returns.
parse_failure(u, req, fetched) ==
    /\ last' = [ClusterResp(u, req, 500, "Failed to parse AI response", 1)
                EXCEPT !.fetched = {fetched[i] : i \in 1..Len(fetched)}]
    /\ UNCHANGED <<comments, clusters, cluster_comments>>

\* The handler after the gate, for the rows the query returned.
cluster_comments_body(u, req, fetched, groups, faults) ==
    LET parsed == json_loads(clean_cluster_response(req.text))
        start == [clusters |-> clusters, cluster_comments |-> cluster_comments,
                  comments |-> comments, created |-> {}, writes |-> 0,
                  raised |-> FALSE]
        st == run_groups(start, groups, 1, fetched, u, faults)
        fset == {fetched[i] : i \in 1..Len(fetched)}
        faulted == faults # NoFaults
    IN
    IF too_few(fetched, req)
    THEN /\ last' = [ClusterResp(u, req, 400, "Not enough comments", 0)
                     EXCEPT !.fetched = fset]
         /\ UNCHANGED <<comments, clusters, cluster_comments>>
    ELSE IF req.kind # "ok"
    THEN /\ last' = [ClusterResp(u, req, call_groq_code(req.kind), "AI service error",
                                 call_groq_requests(req.kind))
                     EXCEPT !.fetched = fset]
         /\ UNCHANGED <<comments, clusters, cluster_comments>>
    ELSE IF parsed = "JSONDecodeError"
    THEN parse_failure(u, req, fetched)
    ELSE IF parsed = "non_object"
    THEN /\ last' = [ClusterResp(u, req, 500, "Failed: AttributeError", 1)
                     EXCEPT !.fetched = fset]
         /\ UNCHANGED <<comments, clusters, cluster_comments>>
    ELSE IF st.raised \/ faults.final_fail
    THEN /\ last' = [ClusterResp(u, req, 500, "Failed: database error", 1)
                     EXCEPT !.fetched = fset, !.created = st.created,
                            !.writes = st.writes + (IF st.raised THEN 0 ELSE 1),
                            !.faulted = TRUE]
         /\ clusters' = st.clusters
         /\ cluster_comments' = st.cluster_comments
         /\ comments' = st.comments
    ELSE /\ last' = [ClusterResp(u, req, 200, "clustered", 1)
                     EXCEPT !.fetched = fset, !.created = st.created,
                            !.writes = st.writes + 1, !.faulted = faulted]
         /\ clusters' = st.clusters
         /\ cluster_comments' = st.cluster_comments
         /\ comments' = mark_processed(st.comments, fetched)

\* POST /cluster-comments.  req: the request and the LLM's behaviour;
\* groups: the "clusters" list of the answer's JSON object.
ClusterComments(u, req, single_mode, groups, faults) ==
    IF ~Authenticated(u) THEN Unauthorized("cluster_comments", u)
    ELSE LET gate == verify_subscription(u, single_mode) IN
         IF gate.code # 200
         THEN /\ last' = [Resp("cluster_comments", u, gate.code, gate.detail)
                          EXCEPT !.hint = gate.hint, !.req = req]
              /\ UNCHANGED <<youtube_tables, now, authUsers, profiles, deals, comments, clusters, cluster_comments>>
         ELSE /\ \E F \in Fetches(u, req) :
                    cluster_comments_body(u, req, sorted(F), groups, faults)
              /\ UNCHANGED <<youtube_tables, now, authUsers, profiles, deals>>

\* The requests and answers of the model.  A run that reaches the LLM's
\* answer starts only while fewer than MaxClusters clusters are stored.
MaxClusters == 1

ClusterRequests(ids, sizes, kinds, texts) ==
    [comment_ids : ids, min_cluster_size : sizes, kind : kinds, text : texts]

SeqsUpTo2(S) == {<<>>} \cup {<<x>> : x \in S} \cup {<<x, y>> : x \in S, y \in S}

\* Indices of the answer: the first comment, the first fetched comment that
\* was not sent, the first index out of range, a value that is no integer.
IndexValues == {IntIdx(0), IntIdx(SendLimit), IntIdx(FetchLimit), NotInt}

Group(indices, samples) == [theme |-> "T", indices |-> indices, samples |-> samples]

\* Groups that list indices, and groups that list none that maps but quote
\* sample comments (<<"a">> is part of the comment "Ab", <<"z">> of none).
IndexGroups ==
    {Group(i, <<>>) : i \in SeqsUpTo2(IndexValues)}
    \cup {Group(<<IntIdx(0 - 1)>>, <<>>), Group(<<IntIdx(0 - 1), IntIdx(0)>>, <<>>)}
SampleGroups ==
    {Group(<<>>, <<<<"a">>>>), Group(<<>>, <<<<"z">>>>),
     Group(<<NotInt>>, <<<<"a">>, <<"a">>>>),
     Group(<<IntIdx(FetchLimit)>>, <<<<"z">>, <<"a">>>>)}
Groups == IndexGroups \cup SampleGroups
FirstGroups ==
    {Group(<<IntIdx(0)>>, <<>>), Group(<<IntIdx(0), IntIdx(SendLimit)>>, <<>>),
     Group(<<>>, <<<<"z">>>>)}
SecondGroups ==
    {Group(<<IntIdx(0)>>, <<>>), Group(<<IntIdx(SendLimit)>>, <<>>),
     Group(<<>>, <<<<"z">>>>)}

Payloads ==
    {<<>>} \cup {<<g>> : g \in Groups}
    \cup {<<g, h>> : g \in FirstGroups, h \in SecondGroups}

SmallPayloads == {<<Group(<<IntIdx(0)>>, <<>>)>>}

\* comment_ids of a request: absent, or explicit ids.
RequestIds == {{}, {1, 2}}
RequestSizes == {2, 3}

FencedObject == <<"fence", "json", "ws", "obj", "ws", "fence">>

FailingRequests ==
    ClusterRequests(RequestIds, RequestSizes, LlmKinds \ {"ok"}, {<<>>})
    \cup ClusterRequests(RequestIds, RequestSizes, {"ok"}, ResponseTexts)

FewFailingRequests ==
    ClusterRequests({{}}, {2}, {"timeout"}, {<<>>})
    \cup ClusterRequests({{}}, {2}, {"ok"}, {<<"junk">>})

ParsedRequests == ClusterRequests(RequestIds, {2}, {"ok"}, {FencedObject})

FaultRequests == ClusterRequests({{}}, {2}, {"ok"}, {<<"obj">>})

FaultPayloads ==
    {<<Group(<<IntIdx(0), IntIdx(SendLimit)>>, <<>>)>>,
     <<Group(<<IntIdx(0)>>, <<>>), Group(<<IntIdx(SendLimit)>>, <<>>)>>}

Faults ==
    {[NoFaults EXCEPT !.insert_raises = 1],
     [NoFaults EXCEPT !.insert_raises = 2],
     [NoFaults EXCEPT !.insert_empty = {1}],
     [NoFaults EXCEPT !.members_fail = {1}],
     [NoFaults EXCEPT !.update_fail = {1}],
     [NoFaults EXCEPT !.final_fail = TRUE]}

ClusterFailing(u, reqs) ==
    \E req \in reqs : ClusterComments(u, req, "no_data", <<>>, NoFaults)

ClusterParsed(u, reqs, payloads) ==
    \E req \in reqs, groups \in payloads :
        /\ Len(clusters) < MaxClusters
        /\ ClusterComments(u, req, "no_data", groups, NoFaults)

ClusterFaulty(u) ==
    \E req \in FaultRequests, groups \in FaultPayloads, faults \in Faults :
        /\ Len(clusters) < MaxClusters
        /\ ClusterComments(u, req, "no_data", groups, faults)

ClusterNoProfile(u) ==
    \E req \in FaultRequests, m \in SingleModes :
        ClusterComments(u, req, m, <<>>, NoFaults)

(***************************************************************************)
(* Clustering: the clock stands still, accounts are in their trial.        *)
(***************************************************************************)
NextCluster ==
    \/ Signup("u1")
    \/ \E c \in OneCommentInput : CreateComment("u1", c)
    \/ ClusterFailing("u1", FewFailingRequests)
    \/ ClusterParsed("u1", ParsedRequests, Payloads)
    \/ ClusterFaulty("u1")
    \/ ClusterNoProfile("u0")

SpecCluster == Init /\ [][NextCluster]_vars

\* Clustering requests that fail: every LLM failure and every answer text.
NextClusterFail ==
    \/ Signup("u1")
    \/ \E c \in OneCommentInput : CreateComment("u1", c)
    \/ ClusterFailing("u1", FailingRequests)
    \/ ClusterParsed("u1", ParsedRequests, SmallPayloads)
    \/ ClusterNoProfile("u0")

SpecClusterFail == Init /\ [][NextClusterFail]_vars

(***************************************************************************)
(* Deal pipeline (routers/deals.py)                                        *)
(***************************************************************************)
MaxDeals == 1
DealsMaxTime == 1

\* Variant of valid_statuses that admits every value a caller sends.
unchecked_statuses ==
    {"lead", "outreach", "negotiation", "closed_won", "closed_lost", "archived", "LEAD"}

\* schemas.py DealStatus; move_deal's valid_statuses.
valid_statuses == {"lead", "outreach", "negotiation", "closed_won", "closed_lost"}

\* What a caller may send as new_status.
StatusInputs == valid_statuses \cup {"archived", "LEAD"}

DealIds == 1..MaxDeals

\* An id no stored deal has (the id of a deleted deal may come back: no
\* handler keeps a deal id from one request to the next).
new_deal_id == CHOOSE id \in 1..(Cardinality(DOMAIN deals) + 1) : id \notin DOMAIN deals

\* Variant of update_deals that assigns no column (the trigger still runs).
update_deals_keep_status(ids, fields) ==
    [id \in DOMAIN deals |->
        IF id \in ids THEN [deals[id] EXCEPT !.updated_at = now] ELSE deals[id]]

\* An UPDATE of public.deals restricted to the rows `ids`: the assignment
\* of `fields`, and the BEFORE UPDATE trigger update_deals_updated_at.
update_deals(ids, fields) ==
    [id \in DOMAIN deals |->
        IF id \in ids
        THEN [c \in DOMAIN deals[id] |->
                IF c \in DOMAIN fields THEN fields[c]
                ELSE IF c = "updated_at" THEN now
                ELSE deals[id][c]]
        ELSE deals[id]]

\* Amounts.  A request carries an amount in thousandths (a Decimal with any
\* number of places) or none; the column deals.amount is DECIMAL(10, 2): the
\* database rounds what it is sent to hundredths, half away from zero.  A
\* stored amount is a number of hundredths, or NULL.
numeric_10_2(amount) ==
    IF amount = Null THEN Null ELSE Some((amount[1] + 5) \div 10)

\* create_deal: one INSERT of at most `limit` stored deals;
\* deals.user_id references profiles(id).
CreateDealUpTo(u, d, limit) ==
    IF ~Authenticated(u) THEN Unauthorized("create_deal", u)
    ELSE IF u \notin DOMAIN profiles
    THEN /\ last' = Resp("create_deal", u, 400, "Failed to create deal")
         /\ UNCHANGED <<youtube_tables, now, authUsers, profiles, deals, comments, clusters, cluster_comments>>
    ELSE /\ Cardinality(DOMAIN deals) < limit
         /\ deals' = (new_deal_id :>
                        [user_id |-> u, brand_name |-> d.brand_name, status |-> d.status,
                         amount |-> numeric_10_2(d.amount),
                         created_at |-> now, updated_at |-> now])
                     @@ deals
         /\ last' = [Resp("create_deal", u, 201, "") EXCEPT !.writes = 1]
         /\ UNCHANGED <<youtube_tables, now, authUsers, profiles, comments, clusters, cluster_comments>>

CreateDeal(u, d) == CreateDealUpTo(u, d, MaxDeals)

\* move_deal: the status is validated, then one UPDATE filtered by id and
\* owner; no row updated is answered 404.
MoveResp(u, deal_id, new_status, code, detail, writes) ==
    [Resp("move_deal", u, code, detail)
     EXCEPT !.req = [deal_id |-> deal_id, new_status |-> new_status,
                     old_status |-> IF deal_id \in DOMAIN deals
                                    THEN deals[deal_id].status ELSE ""],
            !.writes = writes]

MoveDeal(u, deal_id, new_status) ==
    IF ~Authenticated(u) THEN Unauthorized("move_deal", u)
    ELSE IF new_status \notin valid_statuses
    THEN /\ last' = MoveResp(u, deal_id, new_status, 400, "Invalid status", 0)
         /\ UNCHANGED <<youtube_tables, now, authUsers, profiles, deals, comments, clusters, cluster_comments>>
    ELSE LET rows == {id \in DOMAIN deals : id = deal_id /\ deals[id].user_id = u} IN
         /\ deals' = update_deals(rows, [status |-> new_status])
         /\ last' = IF rows = {}
                    THEN MoveResp(u, deal_id, new_status, 404, "Deal not found", 1)
                    ELSE MoveResp(u, deal_id, new_status, 200, "", 1)
         /\ UNCHANGED <<youtube_tables, now, authUsers, profiles, comments, clusters, cluster_comments>>

\* delete_deal: the owner's deal is looked up with single(), then deleted
\* by id.
DeleteDeal(u, deal_id, single_mode) ==
    IF ~Authenticated(u) THEN Unauthorized("delete_deal", u)
    ELSE IF ~(deal_id \in DOMAIN deals /\ deals[deal_id].user_id = u)
    THEN /\ last' = [(IF single_mode = "api_error"
                      THEN Resp("delete_deal", u, 400, "Failed to delete deal")
                      ELSE Resp("delete_deal", u, 404, "Deal not found"))
                     EXCEPT !.req = [deal_id |-> deal_id]]
         /\ UNCHANGED <<youtube_tables, now, authUsers, profiles, deals, comments, clusters, cluster_comments>>
    ELSE /\ deals' = [id \in DOMAIN deals \ {deal_id} |-> deals[id]]
         /\ last' = [Resp("delete_deal", u, 200, "Deal deleted successfully")
                     EXCEPT !.writes = 1, !.req = [deal_id |-> deal_id]]
         /\ UNCHANGED <<youtube_tables, now, authUsers, profiles, comments, clusters, cluster_comments>>

DealInputs ==
    [brand_name : {"acme"}, status : valid_statuses, amount : {Some(100000)}]

(***************************************************************************)
(* Deal statistics (routers/deals.py get_deal_stats)                       *)
(***************************************************************************)
\* A Decimal: coeff * 10^exp.
Dec(coeff, exp) == [coeff |-> coeff, exp |-> exp]

RECURSIVE Pow10(_)
Pow10(n) == IF n <= 0 THEN 1 ELSE 10 * Pow10(n - 1)

\* The number of decimal digits of n > 0.
RECURSIVE Digits(_)
Digits(n) == IF n < 10 THEN 1 ELSE 1 + Digits(n \div 10)

\* The digits a float holds: a decimal of up to 15 significant digits
\* survives the way to a float and back.
FloatDigits == 15

\* `digits` significant digits of n, the rest rounded half to even.
round_digits(n, digits) ==
    IF n = 0 \/ Digits(n) <= digits THEN n
    ELSE LET unit == Pow10(Digits(n) - digits)
             q == n \div unit
             r == n % unit
         IN  IF 2 * r > unit \/ (2 * r = unit /\ q % 2 = 1)
             THEN (q + 1) * unit ELSE q * unit

\* The value `deal.get("amount")` of a row: the JSON number of the stored
\* amount read as a float (in hundredths), None for NULL.
json_amount(amount) ==
    IF amount = Null THEN Null ELSE Some(round_digits(amount[1], FloatDigits))

\* str(x) of a float given in hundredths: the shortest text, with at least
\* one place ("100.0", "12.5", "0.01"); as the Decimal it denotes.
RECURSIVE shortest(_)
shortest(d) ==
    IF d.exp < 0 - 1 /\ d.coeff % 10 = 0 THEN shortest(Dec(d.coeff \div 10, d.exp + 1))
    ELSE d

decimal_amount_whole(amount) ==
    IF amount = Null THEN Dec(0, 0) ELSE Dec(amount[1] \div 100, 0)

\* Line 103: Decimal(str(deal.get("amount") or 0))
decimal_amount(amount) ==
    LET x == json_amount(amount)
    IN  IF x = Null \/ x = Some(0) THEN Dec(0, 0) ELSE shortest(Dec(x[1], 0 - 2))

\* Decimal addition: exact, at the smaller exponent.
dec_add(a, b) ==
    LET exp == Min(a.exp, b.exp)
    IN  Dec(a.coeff * Pow10(a.exp - exp) + b.coeff * Pow10(b.exp - exp), exp)

pipeline_statuses_with_won == {"lead", "outreach", "negotiation", "closed_won"}

\* Line 109: the statuses whose amounts make the pipeline.
pipeline_statuses == {"lead", "outreach", "negotiation"}

\* Lines 91-110: the loop over the rows, from row k of `ids` on.
RECURSIVE stats_loop(_, _, _)
stats_loop(acc, ids, k) ==
    IF k > Len(ids) THEN acc
    ELSE LET deal == deals[ids[k]]
             counted == [s \in DOMAIN acc.by_status \cup {deal.status} |->
                           (IF s \in DOMAIN acc.by_status THEN acc.by_status[s] ELSE 0)
                           + (IF s = deal.status THEN 1 ELSE 0)]
             amount == decimal_amount(deal.amount)
         IN  stats_loop(
               [by_status |-> counted,
                pipeline_value |->
                   IF amount.coeff > 0 /\ deal.status \in pipeline_statuses
                   THEN dec_add(acc.pipeline_value, amount) ELSE acc.pipeline_value,
                closed_value |->
                   IF amount.coeff > 0 /\ deal.status = "closed_won"
                   THEN dec_add(acc.closed_value, amount) ELSE acc.closed_value,
                deal_amounts |->
                   IF amount.coeff > 0 THEN Append(acc.deal_amounts, amount)
                   ELSE acc.deal_amounts],
               ids, k + 1)

\* get_deal_stats: the caller's rows, then the loop.  The response holds
\* total_deals, by_status, pipeline_value and closed_value (avg_deal_size,
\* a quotient of the amounts, is left out of the model).
deal_stats(u) ==
    LET ids == sorted({id \in DOMAIN deals : deals[id].user_id = u})
        acc == stats_loop([by_status |-> <<>>, pipeline_value |-> Dec(0, 0),
                           closed_value |-> Dec(0, 0), deal_amounts |-> <<>>], ids, 1)
    IN  [total_deals |-> Len(ids), by_status |-> acc.by_status,
         pipeline_value |-> acc.pipeline_value, closed_value |-> acc.closed_value]

GetDealStats(u) ==
    IF ~Authenticated(u) THEN Unauthorized("get_deal_stats", u)
    ELSE /\ last' = [Resp("get_deal_stats", u, 200, "") EXCEPT !.body = deal_stats(u)]
         /\ UNCHANGED <<youtube_tables, now, authUsers, profiles, deals, comments, clusters, cluster_comments>>

\* Deals of the statistics model: four statuses; no amount, an amount the
\* column rounds up (0.005), one with trailing zeros (2.500) and 10.049.
StatsMaxDeals == 2

StatsInputs ==
    [brand_name : {"acme"},
     status : {"lead", "negotiation", "closed_won", "closed_lost"},
     amount : {Null, Some(5), Some(2500), Some(10049)}]

NextStats ==
    \/ \E u \in SignupUsers : Signup(u)
    \/ \E u \in SignupUsers, d \in StatsInputs : CreateDealUpTo(u, d, StatsMaxDeals)
    \/ \E u \in SignupUsers : GetDealStats(u)

SpecStats == Init /\ [][NextStats]_vars

(***************************************************************************)
(* Deal pipeline: two accounts, the first one creates deals.               *)
(***************************************************************************)
NextDeals ==
    \/ TickUntil(DealsMaxTime)
    \/ \E u \in SignupUsers : Signup(u)
    \/ \E d \in DealInputs : CreateDeal("u1", d)
    \/ \E u \in SignupUsers, id \in DealIds, st \in StatusInputs : MoveDeal(u, id, st)
    \/ \E u \in SignupUsers, id \in DealIds, m \in SingleModes : DeleteDeal(u, id, m)

SpecDeals == Init /\ [][NextDeals]_vars

(***************************************************************************)
(* The AI endpoints behind the gate; one account, the clock runs.          *)
(***************************************************************************)
GateRequests ==
    ClusterRequests({{}}, {2}, {"ok", "timeout"}, {FencedObject, <<"junk">>})

SentimentAnswers == {[id \in {1} |-> "positive"]}

GateUsers == {"u0", "u1"}

NextGatedAI ==
    \/ Tick
    \/ Signup("u1")
    \/ \E c \in OneCommentInput : CreateComment("u1", c)
    \/ \E u \in GateUsers, m \in SingleModes : TrialStatus(u, m)
    \/ \E u \in GateUsers, m \in SingleModes, k \in {"ok", "http_error"} :
          GeneratePitch(u, m, k)
    \/ \E u \in GateUsers, m \in SingleModes, k \in {"ok", "not_configured"},
          t \in {<<"obj">>} :
          GenerateBrief(u, m, k, t)
    \/ \E u \in GateUsers, m \in SingleModes, k \in {"ok", "timeout"},
          t \in {<<"obj">>, <<"junk">>}, a \in SentimentAnswers :
          AnalyzeSentiment(u, {1, 2}, m, k, t, a)
    \/ \E u \in GateUsers, req \in GateRequests, m \in SingleModes :
          /\ Len(clusters) < MaxClusters
          /\ ClusterComments(u, req, m, CHOOSE p \in SmallPayloads : TRUE, NoFaults)

SpecGatedAI == Init /\ [][NextGatedAI]_vars

(***************************************************************************)
(* Access gate and billing sync; one account signs up.                     *)
(***************************************************************************)
\* Deliveries of the access model: signed ones, and one that is refused.
AccessDeliveries ==
    {[secret |-> TRUE, sig |-> TRUE, json |-> TRUE],
     [secret |-> TRUE, sig |-> FALSE, json |-> TRUE]}

NextAccess ==
    \/ Tick
    \/ Signup("u1")
    \/ \E m \in SingleModes, o \in StripeOutcomes : CreateCheckoutSession("u1", m, o)
    \/ \E e \in WebhookEvents, d \in AccessDeliveries :
          StripeWebhook(e, d.secret, d.sig, d.json, "no_data")
    \/ \E u \in {"u0", "u1"}, m \in SingleModes : TrialStatus(u, m)

SpecAccess == Init /\ [][NextAccess]_vars

(***************************************************************************)
(* Billing webhooks: two accounts, deliveries and replays over two days.   *)
(***************************************************************************)
WebhookMaxTime == 1

NextWebhook ==
    \/ TickUntil(WebhookMaxTime)
    \/ \E u \in SignupUsers : Signup(u)
    \/ \E u \in SignupUsers : CreateCheckoutSession(u, "no_data", "ok")
    \/ \E e \in WebhookEvents, d \in Deliveries :
          \E m \in IF webhook_lookup_misses(e) THEN SingleModes ELSE {"no_data"} :
            StripeWebhook(e, d.secret, d.sig, d.json, m)

SpecWebhook == Init /\ [][NextWebhook]_vars

(***************************************************************************)
(* CSV upload (routers/comments.py upload_comments_csv)                    *)
(***************************************************************************)
\* A file as csv.DictReader reads it: the header and the records after it,
\* each a sequence of cells; <<>> is a blank line, which the reader skips.
\* A record shorter than the header leaves its last columns at None.
CsvMaxRows == 2

data_rows(file) == SelectSeq(file.rows, LAMBDA r : r # <<>>)

\* row.get(key, default): default for a column the header lacks, None
\* (Null) for a column the record is too short for.
csv_get(file, r, key, default) ==
    IF \A i \in 1..Len(file.header) : file.header[i] # key THEN default
    ELSE LET i == CHOOSE j \in 1..Len(file.header) : file.header[j] = key
         IN  IF i > Len(r) THEN Null ELSE Some(r[i])

\* Lines 193-196: the record has no content once trimmed (a None content
\* is not among them: its .strip() raises).
missing_content(file, r) ==
    LET c == csv_get(file, r, "content", Some(<<>>))
    IN  c # Null /\ strip(c[1]) = <<>>

csv_optional == {"author_name", "author_handle", "post_url", "post_title"}

\* .strip() of None raises AttributeError: in the content of any record,
\* or in an optional column of a record with content.
csv_raises(file) ==
    \E k \in 1..Len(data_rows(file)) :
        LET r == data_rows(file)[k]
        IN  \/ csv_get(file, r, "content", Some(<<>>)) = Null
            \/ /\ ~missing_content(file, r)
               /\ \E key \in csv_optional : csv_get(file, r, key, Some(<<>>)) = Null

\* Lines 199-204: datetime.fromisoformat of the date cell, isoformat() of
\* the result; "D" stands for a date such as 2024-01-01, whose isoformat()
\* carries the time of day.  A cell it cannot parse gives no date.
csv_date(file, r) ==
    LET d == csv_get(file, r, "date", Null)
    IN  IF d = Some(<<"D">>) THEN Some(<<"D", "T00:00:00">>) ELSE Null

\* `cell.strip() or None`
strip_or_none(cell) == IF strip(cell[1]) = <<>> THEN Null ELSE Some(strip(cell[1]))

\* Lines 206-215: the row of a record with content.
csv_comment(u, platform, file, r) ==
    [user_id |-> u, platform |-> platform,
     content |-> strip(csv_get(file, r, "content", Some(<<>>))[1]),
     import_id |-> "", sentiment |-> "", cluster_id |-> 0, is_processed |-> FALSE,
     author_name |-> strip_or_none(csv_get(file, r, "author_name", Some(<<>>))),
     author_handle |-> strip_or_none(csv_get(file, r, "author_handle", Some(<<>>))),
     post_url |-> strip_or_none(csv_get(file, r, "post_url", Some(<<>>))),
     post_title |-> strip_or_none(csv_get(file, r, "post_title", Some(<<>>))),
     original_date |-> csv_date(file, r)]

\* comments_list
comments_list(u, platform, file) ==
    LET kept == SelectSeq(data_rows(file), LAMBDA r : ~missing_content(file, r))
    IN  [k \in 1..Len(kept) |-> csv_comment(u, platform, file, kept[k])]

\* The CHECK constraint of comments.platform.
platforms == {"instagram", "youtube", "tiktok", "email", "other"}

CsvResp(u, file, platform, code, detail) ==
    [Resp("upload_comments_csv", u, code, detail) EXCEPT
        !.req = [file |-> file, platform |-> platform]]

\* upload_comments_csv.  At most 100 rows go into one INSERT; the files of
\* this module make one batch.
UploadCommentsCsv(u, is_csv, platform, file) ==
    IF ~Authenticated(u) THEN Unauthorized("upload_comments_csv", u)
    ELSE LET list == comments_list(u, platform, file)
             ids == [k \in 1..Len(list) |-> Cardinality(DOMAIN comments) + k]
             errors == Len(data_rows(file)) - Len(list)
         IN
         IF ~is_csv
         THEN /\ last' = CsvResp(u, file, platform, 400, "File must be a CSV")
              /\ UNCHANGED <<youtube_tables, now, authUsers, profiles, deals, comments, clusters, cluster_comments>>
         ELSE IF csv_raises(file)
         THEN /\ last' = CsvResp(u, file, platform, 400, "Failed to process CSV")
              /\ UNCHANGED <<youtube_tables, now, authUsers, profiles, deals, comments, clusters, cluster_comments>>
         ELSE IF list = <<>>
         THEN /\ last' = CsvResp(u, file, platform, 400, "No valid comments found in CSV")
              /\ UNCHANGED <<youtube_tables, now, authUsers, profiles, deals, comments, clusters, cluster_comments>>
         ELSE IF u \notin DOMAIN profiles \/ platform \notin platforms
         THEN /\ last' = CsvResp(u, file, platform, 400, "Failed to process CSV")
              /\ UNCHANGED <<youtube_tables, now, authUsers, profiles, deals, comments, clusters, cluster_comments>>
         ELSE /\ Cardinality(DOMAIN comments) + Len(list) <= MaxComments
              /\ comments' = [id \in {ids[k] : k \in 1..Len(list)} |->
                                list[CHOOSE k \in 1..Len(list) : ids[k] = id]] @@ comments
              /\ last' = [CsvResp(u, file, platform, 201, "") EXCEPT
                            !.writes = 1,
                            !.created = {ids[k] : k \in 1..Len(list)},
                            !.body = [inserted |-> Len(list), skipped |-> errors]]
              /\ UNCHANGED <<youtube_tables, now, authUsers, profiles, deals, clusters, cluster_comments>>

\* Sequences of at most n elements of S.
RECURSIVE SeqsUpTo(_, _)
SeqsUpTo(S, n) ==
    IF n = 0 THEN {<<>>}
    ELSE LET shorter == SeqsUpTo(S, n - 1)
         IN  shorter \cup {Append(q, x) : q \in {p \in shorter : Len(p) = n - 1}, x \in S}

\* The files: one with all the columns it needs and one with content alone.
\* Records: a blank line, an empty content, a content with empty cells
\* after it, a content and nothing after it, and a full row.
CsvWide ==
    [header : {<<"content", "author_name", "date">>},
     rows : SeqsUpTo({<<>>,
                      << <<"ws">>, <<"A">>, <<"ws", "D">> >>,
                      << <<"ws", "A", "ws">>, <<>>, <<>> >>,
                      << <<"A">> >>,
                      << <<"A">>, <<"ws", "B">>, <<"D">> >>}, CsvMaxRows)]

CsvNarrow ==
    [header : {<<"content">>},
     rows : SeqsUpTo({<<>>, << <<"A", "ws">> >>}, CsvMaxRows)]

NextCsv ==
    \/ \E u \in SignupUsers : Signup(u)
    \/ \E file \in CsvWide \cup CsvNarrow : UploadCommentsCsv("u1", TRUE, "youtube", file)
    \/ \E u \in {"u0", "u2"}, is_csv \in BOOLEAN, platform \in {"youtube", "twitter"} :
          UploadCommentsCsv(u, is_csv, platform,
                            [header |-> <<"content">>, rows |-> << << <<"A">> >> >>])

SpecCsv == Init /\ [][NextCsv]_vars

(***************************************************************************)
(* YouTube import (routers/integrations.py)                                *)
(***************************************************************************)
\* `integrations` holds the YouTube integration row of an account,
\* `imports` the import rows, and imported[id] the number of rows of
\* `comments` that carry import_id = id (the rows of an import differ in
\* their texts only; the model keeps their number).  DOMAIN imported is the
\* set of import ids ever issued.
MaxImports == 1
YtMaxPages == 5

\* Line 430: maxResults, the most items a page holds.
PageSize == 100
\* Lines 462, 465: the number of collected comments that ends the paging.
ImportCap == 500
\* Line 470: rows per INSERT.
BatchSize == 100

\* youtube_callback: the token exchange succeeded and the integration row
\* is upserted, or it failed and the browser is sent back with an error.
YoutubeCallback(u, ok) ==
    /\ u \in authUsers
    /\ integrations' = IF ~ok THEN integrations
                       ELSE IF u \in DOMAIN integrations THEN integrations
                       ELSE (u :> [last_sync_at |-> Null]) @@ integrations
    /\ last' = Resp("youtube_callback", u, 307, IF ok THEN "success=youtube" ELSE "error")
    /\ UNCHANGED <<imports, imported, now, authUsers, profiles, deals, comments, clusters,
                   cluster_comments>>

\* A video as the comment-listing API presents it: `full` pages of PageSize
\* threads, then a last page of `tail` threads without a nextPageToken; or a
\* video whose first page is refused (a status other than 200).
page_items(v, k) == IF k <= v.full THEN PageSize ELSE v.tail

\* Lines 425-463: the pages of one video, from page k on, with `count`
\* comments collected so far.
RECURSIVE fetch_pages(_, _, _)
fetch_pages(count, v, k) ==
    IF v.refused THEN count
    ELSE LET collected == count + page_items(v, k)
         IN  IF k > v.full \/ collected >= ImportCap THEN collected
             ELSE fetch_pages(collected, v, k + 1)

\* Lines 422-466: the videos from the i-th on; len(all_comments) at the end.
RECURSIVE fetch_videos(_, _, _)
fetch_videos(count, videos, i) ==
    IF i > Len(videos) THEN count
    ELSE LET collected == fetch_pages(count, videos[i], 1)
         IN  IF collected >= ImportCap THEN collected
             ELSE fetch_videos(collected, videos, i + 1)

\* Where a request may meet an exception after its import row was
\* inserted: in a fetch (the connection, or an item without a snippet), in
\* the first or the second INSERT of comments, in the UPDATE of
\* comment_count, in the UPDATE of last_sync_at.
ImportFaults == {"none", "fetch", "batch_1", "batch_2", "count", "sync"}

\* The comment rows that were inserted when the fault struck.
persisted(collected, fault) ==
    IF fault \in {"fetch", "batch_1"} THEN 0
    ELSE IF fault = "batch_2" THEN Min(collected, BatchSize)
    ELSE collected

\* The fault strikes: its statement is one the request issues.
strikes(collected, fault) ==
    \/ fault = "fetch"
    \/ fault = "sync"
    \/ fault \in {"batch_1", "count"} /\ collected > 0
    \/ fault = "batch_2" /\ collected > BatchSize

new_import_id == Cardinality(DOMAIN imported) + 1

\* Lines 409-414: the import row as it is inserted.
import_record(u) == [user_id |-> u, platform |-> "youtube", comment_count |-> 0]

cleanup_keeps(table, id) == table

\* Line 495: imports.delete().eq("id", import_id)
cleanup(table, id) == [i \in DOMAIN table \ {id} |-> table[i]]

ImportResp(u, videos, fault, code, detail) ==
    [Resp("import_youtube_comments", u, code, detail) EXCEPT
        !.req = [videos |-> videos, fault |-> fault]]

\* import_youtube_comments.  The refresh of an expired access token changes
\* no table of this module and its failure is swallowed (lines 392-403).
ImportYoutubeComments(u, videos, single_mode, fault) ==
    IF ~Authenticated(u) THEN Unauthorized("import_youtube_comments", u)
    ELSE IF videos = <<>>
    THEN /\ last' = ImportResp(u, videos, fault, 400, "No videos selected")
         /\ UNCHANGED <<youtube_tables, now, authUsers, profiles, deals, comments, clusters,
                        cluster_comments>>
    ELSE IF u \notin DOMAIN integrations
    THEN /\ last' = IF single_mode = "no_data"
                    THEN ImportResp(u, videos, fault, 404, "YouTube not connected")
                    ELSE ImportResp(u, videos, fault, 500, "Internal Server Error")
         /\ UNCHANGED <<youtube_tables, now, authUsers, profiles, deals, comments, clusters,
                        cluster_comments>>
    ELSE LET id == new_import_id
             collected == fetch_videos(0, videos, 1)
         IN  /\ Cardinality(DOMAIN imported) < MaxImports
             /\ IF strikes(collected, fault)
                THEN \* except Exception: the import row is deleted
                     /\ imports' = cleanup((id :> import_record(u)) @@ imports, id)
                     /\ imported' = (id :> persisted(collected, fault)) @@ imported
                     /\ integrations' = integrations
                     /\ last' = [ImportResp(u, videos, fault, 500, "Failed to import comments")
                                   EXCEPT !.created = {id}]
                ELSE /\ imports' = (id :> [import_record(u) EXCEPT !.comment_count = collected])
                                    @@ imports
                     /\ imported' = (id :> collected) @@ imported
                     /\ integrations' = [integrations EXCEPT ![u].last_sync_at = Some(now)]
                     /\ last' = [ImportResp(u, videos, fault, 200, "") EXCEPT
                                   !.created = {id},
                                   !.body = [import_id |-> id, comments_imported |-> collected,
                                             videos_processed |-> Len(videos)]]
             /\ UNCHANGED <<now, authUsers, profiles, deals, comments, clusters, cluster_comments>>

\* The videos of the import model: up to YtMaxPages full pages and a last
\* page of 0 or 50 threads.
YtVideos == [full : 0..YtMaxPages, tail : {0, PageSize \div 2}, refused : {FALSE}]

YtVideoLists == {<<v>> : v \in YtVideos} \cup {<<v, w>> : v, w \in YtVideos}

YtFaultyLists ==
    {<< [full |-> 0, tail |-> 0, refused |-> FALSE] >>,
     << [full |-> 0, tail |-> 0, refused |-> TRUE],
        [full |-> 1, tail |-> PageSize \div 2, refused |-> FALSE] >>}

NextImport ==
    \/ \E u \in SignupUsers : Signup(u)
    \/ \E ok \in BOOLEAN : YoutubeCallback("u1", ok)
    \/ \E videos \in YtVideoLists : ImportYoutubeComments("u1", videos, "no_data", "none")
    \/ \E videos \in YtFaultyLists, fault \in ImportFaults :
          ImportYoutubeComments("u1", videos, "no_data", fault)
    \/ \E u \in {"u0", "u2"}, videos \in YtFaultyLists \cup {<<>>}, single_mode \in SingleModes :
          ImportYoutubeComments(u, videos, single_mode, "none")

SpecImport == Init /\ [][NextImport]_vars

(***************************************************************************)
(* Records of one account asked for by another (routers/deals.py,          *)
(* comments.py, insights.py).  The handlers run with the filters of their  *)
(* code; the row policies of the database are not part of the model.       *)
(***************************************************************************)
\* .eq("id", id).eq("user_id", current_user["id"]).single(): the caller's
\* row of that id.
owned(table, id, u) == id \in DOMAIN table /\ table[id].user_id = u

\* The answer of a handler whose single() matched no row: 404 from its
\* `if not x.data` test, or 400 from its `except Exception` when the client
\* raises.  `req` names the record that was asked for.
no_row(op, u, req, single_mode) ==
    [(IF single_mode = "api_error" THEN Resp(op, u, 400, "Failed")
      ELSE Resp(op, u, 404, "Not found")) EXCEPT !.req = req]

\* get_deal
GetDeal(u, deal_id, single_mode) ==
    /\ last' = IF ~Authenticated(u) THEN Resp("get_deal", u, 401, "Could not validate credentials")
               ELSE IF ~owned(deals, deal_id, u)
               THEN no_row("get_deal", u, [deal_id |-> deal_id], single_mode)
               ELSE [Resp("get_deal", u, 200, "") EXCEPT
                        !.req = [deal_id |-> deal_id], !.body = deals[deal_id]]
    /\ UNCHANGED <<youtube_tables, now, authUsers, profiles, deals, comments, clusters,
                   cluster_comments>>

\* update_deal: the owner's deal is looked up with single(); the UPDATE
\* that follows filters by id alone.  fields: the columns of the request
\* that are not None.
UpdateDeal(u, deal_id, fields, single_mode) ==
    IF ~Authenticated(u) THEN Unauthorized("update_deal", u)
    ELSE IF ~owned(deals, deal_id, u) \/ fields = <<>>
    THEN /\ last' = IF ~owned(deals, deal_id, u)
                    THEN no_row("update_deal", u, [deal_id |-> deal_id], single_mode)
                    ELSE [Resp("update_deal", u, 400, "No fields to update")
                          EXCEPT !.req = [deal_id |-> deal_id]]
         /\ UNCHANGED <<youtube_tables, now, authUsers, profiles, deals, comments, clusters,
                        cluster_comments>>
    ELSE /\ deals' = update_deals({deal_id},
                        [c \in DOMAIN fields |->
                            IF c = "amount" THEN numeric_10_2(fields[c]) ELSE fields[c]])
         /\ last' = [Resp("update_deal", u, 200, "") EXCEPT
                        !.writes = 1, !.req = [deal_id |-> deal_id], !.body = deals'[deal_id]]
         /\ UNCHANGED <<youtube_tables, now, authUsers, profiles, comments, clusters,
                        cluster_comments>>

\* get_comment
GetComment(u, comment_id, single_mode) ==
    /\ last' = IF ~Authenticated(u)
               THEN Resp("get_comment", u, 401, "Could not validate credentials")
               ELSE IF ~owned(comments, comment_id, u)
               THEN no_row("get_comment", u, [comment_id |-> comment_id], single_mode)
               ELSE [Resp("get_comment", u, 200, "") EXCEPT
                        !.req = [comment_id |-> comment_id], !.body = comments[comment_id]]
    /\ UNCHANGED <<youtube_tables, now, authUsers, profiles, deals, comments, clusters,
                   cluster_comments>>

\* get_cluster_comments: the owner's cluster is looked up with single();
\* the comments are then selected by cluster_id alone (the first page holds
\* them all).
GetClusterComments(u, cluster_id, single_mode) ==
    /\ last' = IF ~Authenticated(u)
               THEN Resp("get_cluster_comments", u, 401, "Could not validate credentials")
               ELSE IF ~owned(clusters, cluster_id, u)
               THEN no_row("get_cluster_comments", u, [cluster_id |-> cluster_id], single_mode)
               ELSE [Resp("get_cluster_comments", u, 200, "") EXCEPT
                        !.req = [cluster_id |-> cluster_id],
                        !.body = {comments[id] : id \in {i \in DOMAIN comments :
                                                          comments[i].cluster_id = cluster_id}}]
    /\ UNCHANGED <<youtube_tables, now, authUsers, profiles, deals, comments, clusters,
                   cluster_comments>>

\* The columns an update carries: none, a status, a name and an amount.
UpdateInputs ==
    {<<>>, [status |-> "negotiation"], [brand_name |-> "globex", amount |-> Some(2505)]}

\* Two accounts; the first one stores deals, comments and a cluster, both
\* ask for them.
NextOwnership ==
    \/ \E u \in SignupUsers : Signup(u)
    \/ \E d \in DealInputs : CreateDeal("u1", d)
    \/ \E c \in OneCommentInput : CreateComment("u1", c)
    \/ ClusterParsed("u1", ParsedRequests, SmallPayloads)
    \/ \E u \in SignupUsers, id \in DealIds, m \in SingleModes : GetDeal(u, id, m)
    \/ \E u \in SignupUsers, id \in DealIds, f \in UpdateInputs, m \in SingleModes :
          UpdateDeal(u, id, f, m)
    \/ \E u \in SignupUsers, id \in DealIds, st \in {"outreach", "archived"} : MoveDeal(u, id, st)
    \/ \E u \in SignupUsers, id \in DealIds, m \in SingleModes : DeleteDeal(u, id, m)
    \/ \E u \in SignupUsers, id \in 1..MaxComments, m \in SingleModes : GetComment(u, id, m)
    \/ \E u \in SignupUsers, id \in 1..MaxClusters, m \in SingleModes :
          GetClusterComments(u, id, m)

SpecOwnership == Init /\ [][NextOwnership]_vars

(***************************************************************************)
(* Deleting a cluster (routers/insights.py delete_cluster)                 *)
(***************************************************************************)
\* Cluster ids are issued in order and never again: clusters[i] is the row
\* with the i-th id, or Gone once that row was deleted.
Gone == [user_id |-> "", gone |-> TRUE]

detach_cascade(rows, cluster_id) ==
    [id \in {i \in DOMAIN rows : rows[i].cluster_id # cluster_id} |-> rows[id]]

\* comments.cluster_id REFERENCES clusters(id) ON DELETE SET NULL
detach(rows, cluster_id) ==
    [id \in DOMAIN rows |->
        IF rows[id].cluster_id = cluster_id THEN [rows[id] EXCEPT !.cluster_id = 0]
        ELSE rows[id]]

\* The foreign key of cluster_comments.cluster_id is declared outside this
\* repository's schema: its rows go with the cluster, stay, or block the
\* DELETE.
MembershipRules == {"cascade", "keep", "restrict"}

\* delete_cluster: the owner's cluster is looked up with single(), then
\* deleted by id.
DeleteCluster(u, cluster_id, single_mode, rule) ==
    IF ~Authenticated(u) THEN Unauthorized("delete_cluster", u)
    ELSE LET linked == {i \in 1..Len(cluster_comments) :
                           cluster_comments[i].cluster_id = cluster_id}
             req == [cluster_id |-> cluster_id]
         IN
         IF ~owned(clusters, cluster_id, u) \/ (rule = "restrict" /\ linked # {})
         THEN /\ last' = IF ~owned(clusters, cluster_id, u)
                         THEN no_row("delete_cluster", u, req, single_mode)
                         ELSE [Resp("delete_cluster", u, 400, "Failed to delete cluster")
                               EXCEPT !.req = req, !.writes = 1]
              /\ UNCHANGED <<youtube_tables, now, authUsers, profiles, deals, comments, clusters,
                             cluster_comments>>
         ELSE /\ clusters' = [clusters EXCEPT ![cluster_id] = Gone]
              /\ comments' = detach(comments, cluster_id)
              /\ cluster_comments' =
                    IF rule = "cascade"
                    THEN SelectSeq(cluster_comments, LAMBDA r : r.cluster_id # cluster_id)
                    ELSE cluster_comments
              /\ last' = [Resp("delete_cluster", u, 200, "Cluster deleted successfully")
                          EXCEPT !.req = req, !.writes = 1]
              /\ UNCHANGED <<youtube_tables, now, authUsers, profiles, deals>>

\* One account clusters its comments and deletes clusters; another one asks
\* for the same deletions.
NextDetach ==
    \/ \E u \in SignupUsers : Signup(u)
    \/ \E c \in OneCommentInput : CreateComment("u1", c)
    \/ ClusterParsed("u1", ParsedRequests, SmallPayloads)
    \/ \E u \in SignupUsers, id \in 1..MaxClusters, m \in SingleModes, rule \in MembershipRules :
          DeleteCluster(u, id, m, rule)

SpecDetach == Init /\ [][NextDetach]_vars

(***************************************************************************)
(* Listing the channel's videos (routers/integrations.py                   *)
(* list_youtube_videos, refresh_youtube_token)                             *)
(***************************************************************************)
\* What the outside answers to one request: whether the stored token has
\* expired, whether the row holds a refresh token, the answers of the token
\* endpoint to its first and second call (TRUE: 200), the statuses of the
\* first and second channels call, whether the channel has items, and the
\* status of the playlistItems call.  The token columns of the integration
\* row are not part of the model.
YtStatuses == {200, 401, 403}

YtAnswers ==
    [expired : BOOLEAN, refresh_token : BOOLEAN, token : BOOLEAN \X BOOLEAN,
     channel : YtStatuses \X YtStatuses, items : BOOLEAN, playlist : {200, 403}]

retries_channel_any(status) == status # 200

\* Line 288: if channel_response.status_code == 401
retries_channel(status) == status = 401

\* The calls of list_youtube_videos and its answer.
list_videos_run(yt) ==
    LET early == IF yt.expired /\ yt.refresh_token THEN 1 ELSE 0
        again == retries_channel(yt.channel[1])
        refreshed == again /\ yt.refresh_token /\ yt.token[early + 1]
        token_calls == early + (IF again /\ yt.refresh_token THEN 1 ELSE 0)
        channel_calls == IF refreshed THEN 2 ELSE 1
        channel_status == IF refreshed THEN yt.channel[2] ELSE yt.channel[1]
        calls(p) == [token_calls |-> token_calls, channel_calls |-> channel_calls,
                     playlist_calls |-> p]
    IN  IF again /\ ~refreshed
        THEN [code |-> 401, detail |-> "Please reconnect YouTube", calls |-> calls(0)]
        ELSE IF channel_status # 200
        THEN [code |-> 400, detail |-> "Failed to fetch channel info", calls |-> calls(0)]
        ELSE IF ~yt.items
        THEN [code |-> 200, detail |-> "", calls |-> calls(0)]
        ELSE IF yt.playlist # 200
        THEN [code |-> 400, detail |-> "Failed to fetch videos", calls |-> calls(1)]
        ELSE [code |-> 200, detail |-> "", calls |-> calls(1)]

ListYoutubeVideos(u, single_mode, yt) ==
    /\ last' = IF ~Authenticated(u)
               THEN Resp("list_youtube_videos", u, 401, "Could not validate credentials")
               ELSE IF u \notin DOMAIN integrations
               THEN [(IF single_mode = "no_data"
                      THEN Resp("list_youtube_videos", u, 404, "YouTube not connected")
                      ELSE Resp("list_youtube_videos", u, 500, "Internal Server Error"))
                     EXCEPT !.req = yt]
               ELSE LET run == list_videos_run(yt)
                    IN  [Resp("list_youtube_videos", u, run.code, run.detail)
                         EXCEPT !.req = yt, !.body = run.calls]
    /\ UNCHANGED <<youtube_tables, now, authUsers, profiles, deals, comments, clusters,
                   cluster_comments>>

\* External calls: the LLM behind generate_pitch, the video platform and
\* the token endpoint behind list_youtube_videos.
NextRetry ==
    \/ \E u \in SignupUsers : Signup(u)
    \/ \E ok \in BOOLEAN : YoutubeCallback("u1", ok)
    \/ \E u \in SignupUsers, kind \in LlmKinds : GeneratePitch(u, "no_data", kind)
    \/ \E yt \in YtAnswers : ListYoutubeVideos("u1", "no_data", yt)
    \/ \E u \in {"u0", "u2"}, m \in SingleModes :
          ListYoutubeVideos(u, m, CHOOSE yt \in YtAnswers : TRUE)

SpecRetry == Init /\ [][NextRetry]_vars

(***************************************************************************)
(* Clusters with statistics (routers/ai.py get_clusters_with_stats)        *)
(***************************************************************************)
\* imports.id as comments.import_id and the import_id query parameter carry
\* it: a string.
import_key(id) == ToString(id)

\* integrations.py 448-458: the rows of `n` imported threads, numbered after
\* the rows the table holds.
imported_rows(u, id, n) ==
    [c \in (Cardinality(DOMAIN comments) + 1)..(Cardinality(DOMAIN comments) + n) |->
        [user_id |-> u, platform |-> "youtube", content |-> <<"c">>,
         import_id |-> import_key(id), sentiment |-> "", cluster_id |-> 0,
         is_processed |-> FALSE]]

\* import_youtube_comments of one video whose only page holds n threads and
\* is served, with the inserted comment rows spelled out.
ImportYoutubeRows(u, n) ==
    /\ Authenticated(u)
    /\ u \in DOMAIN integrations
    /\ Cardinality(DOMAIN imported) < MaxImports
    /\ Cardinality(DOMAIN comments) + n <= MaxComments
    /\ LET id == new_import_id
           videos == << [full |-> 0, tail |-> n, refused |-> FALSE] >>
       IN  /\ imports' = (id :> [import_record(u) EXCEPT !.comment_count = n]) @@ imports
           /\ imported' = (id :> n) @@ imported
           /\ comments' = imported_rows(u, id, n) @@ comments
           /\ integrations' = [integrations EXCEPT ![u].last_sync_at = Some(now)]
           /\ last' = [ImportResp(u, videos, "none", 200, "") EXCEPT
                         !.created = {id}, !.writes = 1,
                         !.body = [import_id |-> id, comments_imported |-> n,
                                   videos_processed |-> 1]]
    /\ UNCHANGED <<now, authUsers, profiles, deals, clusters, cluster_comments>>

\* Lines 203-226: the membership rows of a cluster whose comment is found.
linked_rows(cluster_id) ==
    {i \in DOMAIN cluster_comments :
        /\ cluster_comments[i].cluster_id = cluster_id
        /\ cluster_comments[i].comment_id \in DOMAIN comments}

linked_comment(i) == comments[cluster_comments[i].comment_id]

\* Lines 234-235, 257: platform_breakdown.get(platform, 0)
platform_count(cluster_id, platform) ==
    Cardinality({i \in linked_rows(cluster_id) : linked_comment(i).platform = platform})

\* Lines 270-274: import_comment_count
import_comment_count(cluster_id, import_id) ==
    Cardinality({i \in linked_rows(cluster_id) : linked_comment(i).import_id = import_id})

\* Lines 246-293: the entry of one cluster, or <<>> when a filter skips it.
\* An absent query parameter is "".
stats_entry(cluster_id, platform, import_id) ==
    LET total_count == Cardinality(linked_rows(cluster_id))
        after_platform == IF platform # "" THEN platform_count(cluster_id, platform)
                          ELSE total_count
    IN  IF platform # "" /\ after_platform = 0 THEN <<>>
        ELSE IF import_id # "" /\ import_comment_count(cluster_id, import_id) = 0 THEN <<>>
        ELSE << [id |-> cluster_id,
                 total_comment_count |-> total_count,
                 filtered_comment_count |->
                     IF import_id # "" THEN import_comment_count(cluster_id, import_id)
                     ELSE after_platform] >>

\* Line 296: list.sort(key=filtered_comment_count, reverse=True), stable.
RECURSIVE sort_by_filtered(_)
sort_by_filtered(rows) ==
    IF rows = <<>> THEN <<>>
    ELSE LET k == CHOOSE i \in 1..Len(rows) :
                     /\ \A j \in 1..Len(rows) :
                           rows[j].filtered_comment_count <= rows[i].filtered_comment_count
                     /\ \A j \in 1..(i - 1) :
                           rows[j].filtered_comment_count < rows[i].filtered_comment_count
         IN  <<rows[k]>> \o sort_by_filtered(SubSeq(rows, 1, k - 1)
                                             \o SubSeq(rows, k + 1, Len(rows)))

\* Lines 171-175, 243-296: the caller's active clusters, each through the
\* filters, then sorted.
RECURSIVE stats_entries(_, _, _, _)
stats_entries(u, cluster_id, platform, import_id) ==
    IF cluster_id > Len(clusters) THEN <<>>
    ELSE (IF clusters[cluster_id].user_id = u /\ clusters[cluster_id].is_active
          THEN stats_entry(cluster_id, platform, import_id) ELSE <<>>)
         \o stats_entries(u, cluster_id + 1, platform, import_id)

GetClustersWithStats(u, platform, import_id) ==
    IF ~Authenticated(u) THEN Unauthorized("clusters_with_stats", u)
    ELSE /\ last' = [Resp("clusters_with_stats", u, 200, "") EXCEPT
                       !.req = [platform |-> platform, import_id |-> import_id],
                       !.body = sort_by_filtered(stats_entries(u, 1, platform, import_id))]
         /\ UNCHANGED <<youtube_tables, now, authUsers, profiles, deals, comments, clusters,
                        cluster_comments>>

StatsPlatforms == {"", "instagram", "youtube"}
StatsImports == {"", import_key(1)}

NextClusterStats ==
    \/ \E u \in SignupUsers : Signup(u)
    \/ YoutubeCallback("u1", TRUE)
    \/ \E c \in OneCommentInput : CreateComment("u1", c)
    \/ \E n \in 1..2 : ImportYoutubeRows("u1", n)
    \/ ClusterParsed("u1", ParsedRequests, FaultPayloads)
    \/ \E u \in SignupUsers, platform \in StatsPlatforms, import_id \in StatsImports :
          GetClustersWithStats(u, platform, import_id)

SpecClusterStats == Init /\ [][NextClusterStats]_vars

(***************************************************************************)
(* Profile edits and the subscription-status endpoint (routers/auth.py     *)
(* update_profile, routers/stripe.py get_subscription_status)              *)
(***************************************************************************)
\* Variant of ProfileUpdateFields that admits the tier column.
ProfileUpdateFieldsOpen == {"full_name", "avatar_url", "subscription_tier"}

\* schemas.py ProfileUpdate: the fields the request model declares; other
\* keys of the body are dropped by the model.
ProfileUpdateFields == {"full_name", "avatar_url"}

\* Bodies of PATCH /auth/me: a key with "" is absent.
ProfileBodies == [full_name : {"", "N"}, subscription_tier : {"", "pro"}]

\* Line 279: the declared fields that are not None.
update_data(body) ==
    [k \in {f \in DOMAIN body \cap ProfileUpdateFields : body[f] # ""} |-> body[k]]

\* PATCH /auth/me.  The UPDATE assigns the columns of update_data; of the
\* columns full_name and avatar_url the tables of this module keep none.
UpdateMe(u, body) ==
    IF ~Authenticated(u) THEN Unauthorized("update_me", u)
    ELSE IF DOMAIN update_data(body) = {}
    THEN /\ last' = [Resp("update_me", u, 400, "No fields to update") EXCEPT !.req = body]
         /\ UNCHANGED <<youtube_tables, now, authUsers, profiles, deals, comments, clusters,
                        cluster_comments>>
    ELSE IF u \notin DOMAIN profiles
    THEN /\ last' = [Resp("update_me", u, 404, "Profile not found") EXCEPT !.req = body]
         /\ UNCHANGED <<youtube_tables, now, authUsers, profiles, deals, comments, clusters,
                        cluster_comments>>
    ELSE /\ profiles' = update_profile(u, update_data(body))
         /\ last' = [Resp("update_me", u, 200, "") EXCEPT !.req = body, !.writes = 1]
         /\ UNCHANGED <<youtube_tables, now, authUsers, deals, comments, clusters,
                        cluster_comments>>

\* stripe.py line 117
is_active(data) == data.subscription_status \in {"active", "trialing"}

\* GET /stripe/subscription-status
SubscriptionStatus(u, single_mode) ==
    /\ IF ~Authenticated(u) THEN last' = Resp("subscription_status", u, 401, "Authentication failed")
       ELSE IF u \notin DOMAIN profiles
       THEN last' = IF single_mode = "api_error"
                    THEN Resp("subscription_status", u, 500, "Failed to get status")
                    ELSE [Resp("subscription_status", u, 200, "") EXCEPT
                            !.body = [status |-> "none", tier |-> "free", is_active |-> FALSE]]
       ELSE last' = [Resp("subscription_status", u, 200, "") EXCEPT
                       !.body = [status |-> profiles[u].subscription_status,
                                 tier |-> profiles[u].subscription_tier,
                                 is_active |-> is_active(profiles[u])]]
    /\ UNCHANGED <<youtube_tables, now, authUsers, profiles, deals, comments, clusters,
                   cluster_comments>>

NextBilling ==
    \/ \E u \in SignupUsers : Signup(u)
    \/ \E u \in SignupUsers : CreateCheckoutSession(u, "no_data", "ok")
    \/ \E e \in WebhookEvents, d \in AccessDeliveries :
          StripeWebhook(e, d.secret, d.sig, d.json, "no_data")
    \/ \E u \in SignupUsers \cup {"u0"}, body \in ProfileBodies : UpdateMe(u, body)
    \/ \E u \in SignupUsers \cup {"u0"}, m \in SingleModes : SubscriptionStatus(u, m)

SpecBilling == Init /\ [][NextBilling]_vars

(***************************************************************************)
(* Two cluster-comments requests of one account in flight together.  The   *)
(* handler is a coroutine: it runs the SELECT of lines 329-337, then awaits *)
(* the LLM (line 375), and writes after the answer (lines 394-501).  No    *)
(* lock or transaction spans the await, so a second request can run its    *)
(* SELECT while the first one waits.                                       *)
(***************************************************************************)
\* The tables after the writes of one request that fetched `fetched` and
\* was answered `groups`, every write succeeding.
run_writes(st, groups, fetched, u) ==
    LET done == run_groups([st EXCEPT !.created = {}], groups, 1, fetched, u, NoFaults)
    IN  [done EXCEPT !.comments = mark_processed(done.comments, fetched)]

\* The schedule SELECT(1), SELECT(2), writes(1), writes(2) of two requests
\* that pass the gate, fetch enough comments and get an answer that parses.
\* last is the response of the second request; its body lists, for each
\* request, the comments fetched and the clusters created.
ClusterPair(u, req, groups1, groups2) ==
    /\ Authenticated(u)
    /\ verify_subscription(u, "no_data").code = 200
    /\ req.kind = "ok"
    /\ json_loads(clean_cluster_response(req.text)) \notin {"JSONDecodeError", "non_object"}
    /\ Len(clusters) < MaxClusters
    /\ \E F1 \in Fetches(u, req), F2 \in Fetches(u, req) :
          LET start == [clusters |-> clusters, cluster_comments |-> cluster_comments,
                        comments |-> comments, created |-> {}, writes |-> 0,
                        raised |-> FALSE]
              first == run_writes(start, groups1, sorted(F1), u)
              second == run_writes(first, groups2, sorted(F2), u)
          IN  /\ ~too_few(sorted(F1), req) /\ ~too_few(sorted(F2), req)
              /\ clusters' = second.clusters
              /\ cluster_comments' = second.cluster_comments
              /\ comments' = second.comments
              /\ last' = [ClusterResp(u, req, 200, "clustered", 1) EXCEPT
                            !.op = "cluster_comments_pair",
                            !.fetched = F2, !.created = second.created,
                            !.writes = second.writes + 2,
                            !.body = << [fetched |-> F1, created |-> first.created],
                                        [fetched |-> F2, created |-> second.created] >>]
    /\ UNCHANGED <<youtube_tables, now, authUsers, profiles, deals>>

DefaultRequests == ClusterRequests({{}}, {2}, {"ok"}, {FencedObject})

NextInterleave ==
    \/ Signup("u1")
    \/ \E c \in OneCommentInput : CreateComment("u1", c)
    \/ ClusterParsed("u1", ParsedRequests, Payloads)
    \/ \E req \in DefaultRequests, groups1 \in FaultPayloads, groups2 \in FaultPayloads :
          ClusterPair("u1", req, groups1, groups2)

SpecInterleave == Init /\ [][NextInterleave]_vars

(***************************************************************************)
(* Properties                                                              *)
(***************************************************************************)
\* C1: for every profile without a qualifying subscription (not both status
\* in {active, trialing} and tier pro), check_subscription grants access
\* with reason "free_trial" if and only if now < created_at + 7 days, and
\* otherwise denies with reason "trial_expired".
C1_TrialWindow ==
    \A u \in DOMAIN profiles :
        LET r == check_subscription(u, "no_data")
            in_trial == now < profiles[u].created_at + 7
        IN  ~(profiles[u].subscription_status \in {"active", "trialing"}
              /\ profiles[u].subscription_tier = "pro")
            => /\ r.exc = "none"
               /\ (r.has_access /\ r.reason = "free_trial") <=> in_trial
               /\ (~r.has_access /\ r.reason = "trial_expired") <=> ~in_trial

\* C1 happens: GET /trial-status answered trial_expired at the first instant
\* after the trial, for an account whose subscription was cancelled.
C1_Witness ==
    /\ last.op = "trial_status" /\ last.code = 200
    /\ last.detail = "trial_expired" /\ ~last.has_access
    /\ last.user \in DOMAIN profiles
    /\ profiles[last.user].subscription_status = "cancelled"
    /\ now = profiles[last.user].created_at + 7

\* C2: for every profile with status in {active, trialing} and tier pro,
\* check_subscription grants access with reason "active_subscription",
\* whatever the age of the account.
C2_ActiveSubscription ==
    \A u \in DOMAIN profiles :
        LET r == check_subscription(u, "no_data")
        IN  (profiles[u].subscription_status \in {"active", "trialing"}
             /\ profiles[u].subscription_tier = "pro")
            => r.exc = "none" /\ r.has_access /\ r.reason = "active_subscription"

\* C2 happens: GET /trial-status answered active_subscription for a trialing
\* pro account older than the free trial.
C2_Witness ==
    /\ last.op = "trial_status" /\ last.code = 200
    /\ last.detail = "active_subscription" /\ last.has_access
    /\ last.user \in DOMAIN profiles
    /\ profiles[last.user].subscription_status = "trialing"
    /\ profiles[last.user].subscription_tier = "pro"
    /\ now >= profiles[last.user].created_at + 7

\* C3: on each AI-gated endpoint, a request of an authenticated account the
\* gate denies is answered 402 with the upgrade hint, and the handler has
\* made no LLM request and no database write.
C3_DeniedIs402 ==
    [][(/\ last' # last
        /\ last'.op \in {"generate_pitch", "cluster_comments", "generate_brief",
                         "analyze_sentiment"}
        /\ Authenticated(last'.user)
        /\ last'.user \in DOMAIN profiles
        /\ ~check_subscription(last'.user, "no_data").has_access)
       => /\ last'.code = 402
          /\ last'.detail = "subscription_required"
          /\ last'.hint = "/pricing"
          /\ last'.llm = 0
          /\ last'.writes = 0
          /\ UNCHANGED <<profiles, deals, comments, clusters, cluster_comments>>]_vars

\* C3 happens: cluster-comments was refused with 402 while the account had
\* enough unprocessed comments to cluster.
C3_Witness ==
    /\ last.op = "cluster_comments" /\ last.code = 402 /\ last.hint = "/pricing"
    /\ Cardinality({id \in DOMAIN comments :
                       comments[id].user_id = last.user /\ ~comments[id].is_processed}) >= 2

\* C4: when the profile row of the account is missing, the gate fails with
\* 404; it never returns trial_expired and an AI-gated endpoint never
\* answers 402.
C4_MissingProfileIs404 ==
    (/\ last.op \in {"trial_status", "generate_pitch", "cluster_comments",
                     "generate_brief", "analyze_sentiment"}
     /\ Authenticated(last.user)
     /\ last.user \notin DOMAIN profiles)
    => /\ last.code = 404
       /\ last.detail = "User profile not found"

\* C5: move_deal with a target status outside the five statuses answers 400
\* and writes nothing: every stored deal is as it was.
C5_InvalidStatusRejected ==
    [][(/\ last' # last
        /\ last'.op = "move_deal"
        /\ Authenticated(last'.user)
        /\ last'.req.new_status \notin
              {"lead", "outreach", "negotiation", "closed_won", "closed_lost"})
       => /\ last'.code = 400
          /\ last'.writes = 0
          /\ deals' = deals]_vars

\* C5 happens: the owner asked to move a stored deal to "archived".
C5_Witness ==
    /\ last.op = "move_deal" /\ last.code = 400
    /\ last.req.new_status = "archived"
    /\ last.req.deal_id \in DOMAIN deals
    /\ deals[last.req.deal_id].user_id = last.user

\* C6 as stated: for a deal of the caller, move_deal succeeds for every pair
\* of the five statuses; afterwards the stored status is the target and no
\* other field of the deal has changed.
C6_MoveChangesOnlyStatus ==
    [][\A d \in DOMAIN deals :
        (/\ last'.op = "move_deal"
         /\ (last' # last \/ deals' # deals)
         /\ Authenticated(last'.user)
         /\ last'.req.deal_id = d
         /\ last'.user = deals[d].user_id
         /\ last'.req.new_status \in
               {"lead", "outreach", "negotiation", "closed_won", "closed_lost"})
        => /\ last'.code = 200
           /\ deals' = [deals EXCEPT ![d].status = last'.req.new_status]]_vars

\* C6 amended: the move succeeds for every pair of the five statuses; the
\* stored status is the target; updated_at is set to the time of the move
\* by the trigger update_deals_updated_at; no other field of the deal and no
\* other deal has changed.
C6_MoveChangesStatusAndUpdatedAt ==
    [][\A d \in DOMAIN deals :
        (/\ last'.op = "move_deal"
         /\ (last' # last \/ deals' # deals)
         /\ Authenticated(last'.user)
         /\ last'.req.deal_id = d
         /\ last'.user = deals[d].user_id
         /\ last'.req.new_status \in
               {"lead", "outreach", "negotiation", "closed_won", "closed_lost"})
        => /\ last'.code = 200
           /\ deals' = [deals EXCEPT ![d].status = last'.req.new_status,
                                     ![d].updated_at = now]]_vars

\* C6 happens: a deal was moved from closed_lost back to lead, after the day
\* it was created.
C6_Witness ==
    /\ last.op = "move_deal" /\ last.code = 200
    /\ last.req.old_status = "closed_lost" /\ last.req.new_status = "lead"
    /\ last.req.deal_id \in DOMAIN deals
    /\ deals[last.req.deal_id].status = "lead"
    /\ deals[last.req.deal_id].created_at < deals[last.req.deal_id].updated_at

\* C7: when cluster-comments answers 200, every comment fetched for the run
\* has is_processed = true, also the comments assigned to no cluster and
\* those past the ones sent to the LLM.
C7_FetchedAreProcessed ==
    (last.op = "cluster_comments" /\ last.code = 200)
    => \A id \in last.fetched : comments[id].is_processed

\* C7 happens: a run fetched as many comments as the limit allows, answered
\* 200, and a fetched comment that was not sent belongs to no cluster.
C7_Witness ==
    /\ last.op = "cluster_comments" /\ last.code = 200
    /\ Cardinality(last.fetched) = FetchLimit
    /\ \E id \in last.fetched :
          /\ \E other \in last.fetched : other < id
          /\ comments[id].cluster_id = 0
          /\ comments[id].is_processed

\* C8: after a cluster-comments run whose writes all succeed, the
\* comment_count of each cluster it created equals the number of its
\* membership rows, whatever the LLM answered.
C8_CountEqualsMembers ==
    (last.op = "cluster_comments" /\ last.code = 200 /\ ~last.faulted)
    => \A c \in last.created :
          clusters[c].comment_count =
             Cardinality({i \in DOMAIN cluster_comments :
                             cluster_comments[i].cluster_id = c})

\* C9: when fewer comments are available than min_cluster_size, the request
\* is answered 400 without an LLM request, and clusters, membership rows
\* and comments are as they were.
C9_TooFewComments ==
    [][(/\ last' # last
        /\ last'.op = "cluster_comments"
        /\ Authenticated(last'.user)
        /\ verify_subscription(last'.user, "no_data").code = 200
        /\ Min(FetchLimit, Cardinality(fetch_matching(last'.user, last'.req)))
              < last'.req.min_cluster_size)
       => /\ last'.code = 400
          /\ last'.llm = 0
          /\ last'.writes = 0
          /\ UNCHANGED <<comments, clusters, cluster_comments>>]_vars

\* C9 happens: one comment was available and two were asked for.
C9_Witness ==
    /\ last.op = "cluster_comments" /\ last.code = 400
    /\ Cardinality(last.fetched) = 1
    /\ last.req.min_cluster_size = 2
    /\ \A id \in last.fetched : ~comments[id].is_processed

\* C10: when the LLM's answer does not parse as JSON, cluster-comments
\* answers with an error, has made one LLM request, and clusters,
\* membership rows and comments are as they were.
C10_ParseFailureIsFatal ==
    [][(/\ last' # last
        /\ last'.op = "cluster_comments"
        /\ Authenticated(last'.user)
        /\ verify_subscription(last'.user, "no_data").code = 200
        /\ Min(FetchLimit, Cardinality(fetch_matching(last'.user, last'.req)))
              >= last'.req.min_cluster_size
        /\ last'.req.kind = "ok"
        /\ json_loads(clean_cluster_response(last'.req.text)) = "JSONDecodeError")
       => /\ last'.code = 500
          /\ last'.detail = "Failed to parse AI response"
          /\ last'.llm = 1
          /\ last'.writes = 0
          /\ UNCHANGED <<comments, clusters, cluster_comments>>]_vars

\* C10 happens: the answer held a fenced JSON object after other text, which
\* the cleaning leaves unparseable; the fetched comments stay unprocessed.
C10_Witness ==
    /\ last.op = "cluster_comments" /\ last.code = 500
    /\ last.detail = "Failed to parse AI response"
    /\ last.req.text = <<"junk", "fence", "json", "obj", "fence">>
    /\ Cardinality(last.fetched) = FetchLimit
    /\ \A id \in last.fetched : ~comments[id].is_processed /\ comments[id].cluster_id = 0

\* C11 as stated: an accepted customer.subscription.deleted delivery for the
\* customer id of a stored profile sets its subscription_status to
\* "cancelled" and its tier to "free"; the identical event delivered again
\* leaves the profile in the same state.
C11_ReplayLeavesProfile ==
    [][\A u \in DOMAIN profiles :
        (/\ last'.op = "stripe_webhook"
         /\ (last' # last \/ profiles' # profiles)
         /\ webhook_accepts(last'.req.delivery.secret, last'.req.delivery.sig,
                            last'.req.delivery.json)
         /\ last'.req.event.type = "customer.subscription.deleted"
         /\ profiles[u].stripe_customer_id = last'.req.event.customer)
        => /\ last'.code = 200
           /\ profiles'[u].subscription_status = "cancelled"
           /\ profiles'[u].subscription_tier = "free"
           /\ last'.req.replay => profiles' = profiles]_vars

\* C11 amended: the delivery sets subscription_status to "cancelled" and the
\* tier to "free" whatever they were; updated_at is set to the time of the
\* delivery by the trigger update_profiles_updated_at, also when the
\* identical event is delivered again; no other field and no other profile
\* changes.
C11_DeletedCancels ==
    [][\A u \in DOMAIN profiles :
        (/\ last'.op = "stripe_webhook"
         /\ (last' # last \/ profiles' # profiles)
         /\ webhook_accepts(last'.req.delivery.secret, last'.req.delivery.sig,
                            last'.req.delivery.json)
         /\ last'.req.event.type = "customer.subscription.deleted"
         /\ profiles[u].stripe_customer_id = last'.req.event.customer)
        => /\ last'.code = 200
           /\ profiles' = [profiles EXCEPT ![u].subscription_status = "cancelled",
                                           ![u].subscription_tier = "free",
                                           ![u].updated_at = <<now>>]
           /\ last'.req.replay =>
                 profiles' = [profiles EXCEPT ![u].updated_at = <<now>>]]_vars

\* C11 happens: the deleted event was delivered a second time, a day after
\* the profile was created, and the profile is cancelled and free.
C11_Witness ==
    /\ last.op = "stripe_webhook" /\ last.code = 200
    /\ last.req.replay
    /\ last.req.event.type = "customer.subscription.deleted"
    /\ \E u \in DOMAIN profiles :
          /\ profiles[u].stripe_customer_id = last.req.event.customer
          /\ profiles[u].subscription_status = "cancelled"
          /\ profiles[u].subscription_tier = "free"
          /\ profiles[u].updated_at = <<now>>
          /\ profiles[u].created_at < now

\* C12: for checkout.session.completed, customer.subscription.updated and
\* customer.subscription.deleted, the identical event delivered a second
\* time leaves every field of every profile as the first delivery left it
\* (updated_at, which the database maintains, is not compared).
C12_ReplayIsIdempotent ==
    [][(/\ last'.op = "stripe_webhook"
        /\ (last' # last \/ profiles' # profiles)
        /\ last'.req.replay
        /\ last'.req.event.type \in {"checkout.session.completed",
                                     "customer.subscription.updated",
                                     "customer.subscription.deleted"})
       => \A u \in DOMAIN profiles :
             \A c \in DOMAIN profiles[u] \ {"updated_at"} :
                profiles'[u][c] = profiles[u][c]]_vars

\* C13: an accepted customer.subscription.updated delivery sets, on the
\* profile with the event's customer id, subscription_status to the event's
\* status and the tier to pro exactly when the status is active or trialing
\* (free otherwise); when no profile has that customer id no profile changes
\* and the delivery is still answered with success.
C13_UpdatedMirrorsStatus ==
    [][(/\ last'.op = "stripe_webhook"
        /\ (last' # last \/ profiles' # profiles)
        /\ webhook_accepts(last'.req.delivery.secret, last'.req.delivery.sig,
                           last'.req.delivery.json)
        /\ last'.req.event.type = "customer.subscription.updated")
       => /\ last'.code = 200
          /\ \A u \in DOMAIN profiles :
                IF profiles[u].stripe_customer_id = last'.req.event.customer
                THEN /\ profiles'[u].subscription_status = last'.req.event.status
                     /\ profiles'[u].subscription_tier =
                           (IF last'.req.event.status \in {"active", "trialing"}
                            THEN "pro" ELSE "free")
                ELSE profiles'[u] = profiles[u]]_vars

\* C14: with a signing secret configured, a delivery whose signature does
\* not verify or whose payload is invalid is answered 400 and changes no
\* profile, whatever event it carries.
C14_BadSignatureRejected ==
    [][(/\ last'.op = "stripe_webhook"
        /\ (last' # last \/ profiles' # profiles)
        /\ last'.req.delivery.secret
        /\ ~(last'.req.delivery.sig /\ last'.req.delivery.json))
       => /\ last'.code = 400
          /\ last'.writes = 0
          /\ profiles' = profiles]_vars

\* C14 happens: a subscription.deleted event for the customer of an active
\* pro profile arrived with a bad signature and was refused.
C14_Witness ==
    /\ last.op = "stripe_webhook" /\ last.code = 400
    /\ last.req.delivery.secret /\ ~last.req.delivery.sig
    /\ last.req.event.type = "customer.subscription.deleted"
    /\ \E u \in DOMAIN profiles :
          /\ profiles[u].stripe_customer_id = last.req.event.customer
          /\ profiles[u].subscription_status = "active"
          /\ profiles[u].subscription_tier = "pro"

(***************************************************************************)
(* Deal statistics                                                         *)
(***************************************************************************)
\* The stored amounts (hundredths, NULL as nothing) of the deals `ids`, summed.
RECURSIVE stored_sum(_)
stored_sum(ids) ==
    IF ids = {} THEN 0
    ELSE LET id == CHOOSE i \in ids : TRUE
         IN  (IF deals[id].amount = Null THEN 0 ELSE deals[id].amount[1])
             + stored_sum(ids \ {id})

\* A Decimal of the response, in hundredths.
hundredths(d) == d.coeff * Pow10(d.exp + 2)

deals_of(u, statuses) ==
    {id \in DOMAIN deals : deals[id].user_id = u /\ deals[id].status \in statuses}

\* C15: the closed_value that get_deal_stats answers is exactly the sum of
\* the caller's stored closed_won amounts, to the hundredth.
C15_ClosedValueIsExactSum ==
    (last.op = "get_deal_stats" /\ last.code = 200) =>
        /\ last.body.closed_value.exp >= 0 - 2
        /\ hundredths(last.body.closed_value) = stored_sum(deals_of(last.user, {"closed_won"}))

\* Two closed_won deals with fractional amounts (0.01 and 10.05) are summed.
C15_Witness ==
    /\ last.op = "get_deal_stats" /\ last.code = 200
    /\ Cardinality(deals_of(last.user, {"closed_won"})) = 2
    /\ hundredths(last.body.closed_value) = 1006

contract_content(file, r) ==
    LET c == csv_get(file, r, "content", Some(<<>>))
    IN  IF c = Null THEN <<>> ELSE strip(c[1])

\* The record has a content and, in every other column, no cell or an
\* empty one.
only_content(file, r) ==
    /\ contract_content(file, r) # <<>>
    /\ \A i \in 1..Len(r) : file.header[i] # "content" => strip(r[i]) = <<>>

\* C17: an upload of a CSV file by an account that may insert comments
\* leaves out the records without content and counts them as skipped, so
\* that inserted + skipped is the number of data records; a record with a
\* content and nothing else is inserted with author_name, author_handle,
\* post_url, post_title and original_date null; and with no record to
\* insert the upload fails and inserts nothing.
C17_CsvRowsCounted ==
    [][(/\ last' # last
        /\ last'.op = "upload_comments_csv"
        /\ Authenticated(last'.user)
        /\ last'.detail # "File must be a CSV"
        /\ last'.user \in DOMAIN profiles
        /\ last'.req.platform \in platforms)
       => LET file == last'.req.file
              data == data_rows(file)
              valid == SelectSeq(data, LAMBDA r : contract_content(file, r) # <<>>)
              first == Cardinality(DOMAIN comments)
          IN  IF valid = <<>>
              THEN last'.code = 400 /\ comments' = comments
              ELSE /\ last'.code = 201
                   /\ last'.body.inserted = Len(valid)
                   /\ last'.body.inserted + last'.body.skipped = Len(data)
                   /\ DOMAIN comments' = DOMAIN comments \cup (first + 1)..(first + Len(valid))
                   /\ \A k \in 1..Len(valid) :
                        /\ comments'[first + k].content = contract_content(file, valid[k])
                        /\ only_content(file, valid[k]) =>
                             /\ comments'[first + k].author_name = Null
                             /\ comments'[first + k].author_handle = Null
                             /\ comments'[first + k].post_url = Null
                             /\ comments'[first + k].post_title = Null
                             /\ comments'[first + k].original_date = Null]_vars

(***************************************************************************)
(* YouTube import                                                          *)
(***************************************************************************)
\* C18: an import that succeeds has collected and inserted at most 500
\* comments, whatever the videos and their pages.
C18_AtMostCap ==
    (last.op = "import_youtube_comments" /\ last.code = 200) =>
        /\ last.body.comments_imported <= ImportCap
        /\ imported[last.body.import_id] <= ImportCap

C20_NonOwnerNotFound ==
    [][(/\ last' # last
        /\ Authenticated(last'.user)
        /\ \/ /\ last'.op \in {"get_deal", "update_deal", "delete_deal"}
              /\ last'.req.deal_id \in DOMAIN deals
              /\ deals[last'.req.deal_id].user_id # last'.user
           \/ /\ last'.op = "move_deal"
              /\ last'.req.new_status \in valid_statuses
              /\ last'.req.deal_id \in DOMAIN deals
              /\ deals[last'.req.deal_id].user_id # last'.user
           \/ /\ last'.op = "get_comment"
              /\ last'.req.comment_id \in DOMAIN comments
              /\ comments[last'.req.comment_id].user_id # last'.user
           \/ /\ last'.op = "get_cluster_comments"
              /\ last'.req.cluster_id \in DOMAIN clusters
              /\ clusters[last'.req.cluster_id].user_id # last'.user)
       => /\ last'.code = 404
          /\ last'.body = <<>>
          /\ UNCHANGED <<deals, comments, clusters, cluster_comments>>]_vars

(***************************************************************************)
(* Deleting a cluster                                                      *)
(***************************************************************************)
\* C21: a delete_cluster that succeeds removes the cluster and leaves every
\* comment stored: the comments that referenced the cluster have their
\* cluster_id null and are otherwise as before, the other comments are
\* untouched, and the number of comments is the same.
C21_DeleteDetaches ==
    [][(last' # last /\ last'.op = "delete_cluster" /\ last'.code = 200)
       => LET c == last'.req.cluster_id
          IN  /\ clusters'[c] = Gone
              /\ DOMAIN comments' = DOMAIN comments
              /\ Cardinality(DOMAIN comments') = Cardinality(DOMAIN comments)
              /\ \A id \in DOMAIN comments :
                    IF comments[id].cluster_id = c
                    THEN comments'[id] = [comments[id] EXCEPT !.cluster_id = 0]
                    ELSE comments'[id] = comments[id]]_vars

\* A cluster with a member was deleted (its membership row was kept): the
\* member is stored and references no cluster.
C21_Witness ==
    /\ last.op = "delete_cluster" /\ last.code = 200
    /\ clusters[last.req.cluster_id] = Gone
    /\ \E i \in 1..Len(cluster_comments) :
          /\ cluster_comments[i].cluster_id = last.req.cluster_id
          /\ cluster_comments[i].comment_id \in DOMAIN comments
          /\ comments[cluster_comments[i].comment_id].cluster_id = 0
    /\ \A id \in DOMAIN comments : comments[id].cluster_id # last.req.cluster_id

C23_RefusedPageIsReported ==
    (/\ last.op = "import_youtube_comments"
     /\ last.created # {}
     /\ last.req.videos[1].refused)
    => last.code \in {500, 503}

(***************************************************************************)
(* Clusters with statistics                                                *)
(***************************************************************************)
\* The linked comments of a cluster that pass the filters of the request.
passing_rows(cluster_id, req) ==
    {i \in linked_rows(cluster_id) :
        /\ req.platform # "" => linked_comment(i).platform = req.platform
        /\ req.import_id # "" => linked_comment(i).import_id = req.import_id}

\* C24: with a platform filter, alone or together with an import_id filter,
\* every returned cluster has a linked comment of that platform and its
\* filtered_comment_count is the number of its linked comments of that
\* platform that pass the filters; in every case filtered_comment_count is
\* at most total_comment_count and the list is in descending order of
\* filtered_comment_count.
C24_FilteredCountsPlatform ==
    (last.op = "clusters_with_stats" /\ last.code = 200) =>
        /\ \A k \in DOMAIN last.body :
              /\ last.body[k].filtered_comment_count <= last.body[k].total_comment_count
              /\ k > 1 => last.body[k].filtered_comment_count
                              <= last.body[k - 1].filtered_comment_count
        /\ last.req.platform # "" =>
              \A k \in DOMAIN last.body :
                 /\ platform_count(last.body[k].id, last.req.platform) >= 1
                 /\ last.body[k].filtered_comment_count
                        = Cardinality(passing_rows(last.body[k].id, last.req))

\* The same with the platform filter alone.
StatsPlatformAlone ==
    (last.op = "clusters_with_stats" /\ last.code = 200) =>
        /\ \A k \in DOMAIN last.body :
              /\ last.body[k].filtered_comment_count <= last.body[k].total_comment_count
              /\ k > 1 => last.body[k].filtered_comment_count
                              <= last.body[k - 1].filtered_comment_count
        /\ (last.req.platform # "" /\ last.req.import_id = "") =>
              \A k \in DOMAIN last.body :
                 /\ platform_count(last.body[k].id, last.req.platform) >= 1
                 /\ last.body[k].filtered_comment_count
                        = Cardinality(passing_rows(last.body[k].id, last.req))

(***************************************************************************)
(* Indices of the answer                                                   *)
(***************************************************************************)
\* The comments that got an index in the prompt.
sent_ids(fetched) ==
    {comments_for_ai(fetched)[i] : i \in 1..Len(comments_for_ai(fetched))}

\* C25: in a cluster-comments run that succeeds, every comment that becomes
\* a member of a cluster through index mapping is one of the comments that
\* were sent to the model (the first SendLimit fetched).
C25_IndexedMembersWereSent ==
    [][\A req \in ParsedRequests, groups \in Payloads :
          (ClusterComments("u1", req, "no_data", groups, NoFaults) /\ last'.code = 200) =>
             \A k \in DOMAIN groups :
                LET by_index == map_indices(groups[k].indices, sorted(last'.fetched))
                IN  \A i \in DOMAIN by_index :
                       /\ by_index[i] \in sent_ids(sorted(last'.fetched))
                       /\ \E r \in DOMAIN cluster_comments' :
                             cluster_comments'[r].comment_id = by_index[i]]_vars

\* An index that is no integer, negative, or not below the number of
\* fetched comments adds no member.
IndexOutsideFetchedSkipped ==
    [][\A req \in ParsedRequests, groups \in Payloads :
          (ClusterComments("u1", req, "no_data", groups, NoFaults) /\ last'.code = 200) =>
             \A k \in DOMAIN groups :
                LET fetched == sorted(last'.fetched)
                    in_range == SelectSeq(groups[k].indices,
                                    LAMBDA idx : idx.kind = "int" /\ 0 <= idx.v
                                                 /\ idx.v < Len(fetched))
                IN  map_indices(groups[k].indices, fetched)
                        = [i \in DOMAIN in_range |-> fetched[in_range[i].v + 1]]]_vars

(***************************************************************************)
(* A failed membership insert                                              *)
(***************************************************************************)
MembersFail == [NoFaults EXCEPT !.members_fail = {1}]

\* C26: when the membership insert of the first group of a cluster-comments
\* run fails, the request answers 200; the cluster row of that group is
\* stored without membership rows; its members still carry the id of a
\* cluster of the run (its own, unless a later group lists them too); the
\* later groups get their cluster and membership rows; and every fetched
\* comment is marked processed.
C26_MembershipFailureTolerated ==
    [][\A req \in FaultRequests, groups \in FaultPayloads :
          (ClusterComments("u1", req, "no_data", groups, MembersFail) /\ last'.faulted) =>
             LET fetched == sorted(last'.fetched)
                 first_id == Len(clusters) + 1
                 ids(k) == member_ids(groups[k], fetched, comments)
                 last_group(id) ==
                     CHOOSE k \in DOMAIN groups :
                        /\ \E i \in DOMAIN ids(k) : ids(k)[i] = id
                        /\ \A j \in DOMAIN groups :
                              (\E i \in DOMAIN ids(j) : ids(j)[i] = id) => j <= k
             IN  /\ last'.code = 200
                 /\ Len(clusters') = Len(clusters) + Len(groups)
                 /\ last'.created = first_id..Len(clusters')
                 /\ ids(1) # <<>>
                 /\ \A r \in DOMAIN cluster_comments' :
                       cluster_comments'[r].cluster_id # first_id
                 /\ \A i \in DOMAIN ids(1) :
                       comments'[ids(1)[i]].cluster_id = first_id + last_group(ids(1)[i]) - 1
                 /\ \A k \in DOMAIN groups : k > 1 =>
                       \A i \in DOMAIN ids(k) :
                          \E r \in DOMAIN cluster_comments' :
                             cluster_comments'[r] = [cluster_id |-> first_id + k - 1,
                                                     comment_id |-> ids(k)[i]]
                 /\ \A id \in last'.fetched : comments'[id].is_processed]_vars

\* C26 happens: a run answered 200 and left a cluster together with a later
\* one; the first has a member comment and no membership row, the later one
\* has its membership row.
C26_Witness ==
    /\ last.op = "cluster_comments" /\ last.code = 200 /\ last.faulted
    /\ \E c \in last.created, d \in last.created :
          /\ c < d
          /\ \A r \in DOMAIN cluster_comments : cluster_comments[r].cluster_id # c
          /\ \E id \in last.fetched :
                comments[id].cluster_id = c /\ comments[id].is_processed
          /\ \E r \in DOMAIN cluster_comments : cluster_comments[r].cluster_id = d

(***************************************************************************)
(* Tier and status                                                         *)
(***************************************************************************)
\* C27: in every state reached by signups, checkouts, webhook deliveries and
\* profile edits, a profile's tier is pro exactly when its status is active
\* or trialing; and is_active of a subscription-status answer for a stored
\* profile equals whether the gate decides active_subscription for it.
C27_TierIffStatus ==
    /\ \A u \in DOMAIN profiles :
          (profiles[u].subscription_tier = "pro")
             <=> (profiles[u].subscription_status \in {"active", "trialing"})
    /\ (last.op = "subscription_status" /\ last.code = 200 /\ last.user \in DOMAIN profiles) =>
          (last.body.is_active
              <=> (check_subscription(last.user, "no_data").reason = "active_subscription"))

\* C27 happens: a subscription was started and then deleted by webhooks, and
\* a profile edit that names the tier pro was accepted for that account.
C27_Witness ==
    /\ last.op = "update_me" /\ last.code = 200
    /\ last.req.subscription_tier = "pro"
    /\ profiles[last.user].subscription_status = "cancelled"
    /\ profiles[last.user].subscription_tier = "free"

(***************************************************************************)
(* The trial is not regained                                               *)
(***************************************************************************)
gate_reason(u) == check_subscription(u, "no_data").reason

\* C28: no step changes a profile's created_at; once the gate decides
\* trial_expired for a profile it never decides free_trial for it again;
\* and while the profile's subscription status and tier stay as they are
\* it keeps deciding trial_expired.
C28_TrialNeverRegained ==
    [][\A u \in DOMAIN profiles :
          /\ u \in DOMAIN profiles'
          /\ profiles'[u].created_at = profiles[u].created_at
          /\ gate_reason(u) = "trial_expired" => gate_reason(u)' # "free_trial"
          /\ (/\ gate_reason(u) = "trial_expired"
              /\ profiles'[u].subscription_status = profiles[u].subscription_status
              /\ profiles'[u].subscription_tier = profiles[u].subscription_tier)
                => gate_reason(u)' = "trial_expired"]_vars

\* C28 happens: the trial window is over, a webhook ended the account's
\* subscription after the end of the window, time went on, and the gate
\* decides trial_expired.
C28_Witness ==
    /\ "u1" \in DOMAIN profiles
    /\ profiles["u1"].subscription_status = "cancelled"
    /\ profiles["u1"].updated_at[1] >= profiles["u1"].created_at + TrialDays
    /\ now > profiles["u1"].updated_at[1]
    /\ gate_reason("u1") = "trial_expired"

(***************************************************************************)
(* A comment is clustered once                                             *)
(***************************************************************************)
\* The clusters of `created` that have a membership row for the comment.
clusters_of(id, created) ==
    {c \in created : \E r \in DOMAIN cluster_comments :
                        cluster_comments[r] = [cluster_id |-> c, comment_id |-> id]}

\* C29: a default-mode cluster-comments run fetches no comment that is
\* marked processed, and when two requests of one account overlap, no
\* comment is fetched by both requests and no comment gets membership rows
\* from both.
C29_ConsumedOnce ==
    /\ (last.op = "cluster_comments_pair") =>
          /\ last.body[1].fetched \cap last.body[2].fetched = {}
          /\ \A id \in DOMAIN comments :
                clusters_of(id, last.body[1].created) = {}
                   \/ clusters_of(id, last.body[2].created) = {}
    /\ (last.op = "cluster_comments" /\ last.code = 200 /\ last.req.comment_ids = {}) =>
          \A id \in last.fetched : \A c \in clusters_of(id, 1..Len(clusters)) :
             c \in last.created

\* One request after the other: a default-mode run fetches only comments
\* that are not marked processed, and marks what it fetched.
DefaultRunFetchesUnprocessed ==
    [][(last' # last /\ last'.op = "cluster_comments" /\ last'.code \in {200, 400}
          /\ last'.req.comment_ids = {}) =>
             /\ \A id \in last'.fetched : ~comments[id].is_processed
             /\ last'.code = 200 => \A id \in last'.fetched : comments'[id].is_processed]_vars

(***************************************************************************)
(* A comment listed in several groups                                      *)
(***************************************************************************)
\* C30: in a cluster-comments run whose writes all succeed, a comment that
\* is a member of several groups of the answer gets a membership row in the
\* cluster of each of them and ends with the cluster_id of the last of them
\* in the order of the answer; and a cluster_id the run has set refers to a
\* cluster with a membership row for that comment.
C30_LastGroupWins ==
    [][(last'.op = "cluster_comments" /\ last'.code = 200 /\ ~last'.faulted) =>
       \A groups \in Payloads :
          (/\ Len(clusters') = Len(clusters) + Len(groups)
           /\ cluster_comments_body("u1", last'.req, sorted(last'.fetched), groups, NoFaults)) =>
             LET fetched == sorted(last'.fetched)
                 first_id == Len(clusters) + 1
                 members == [k \in DOMAIN groups |->
                               LET ids == member_ids(groups[k], fetched, comments)
                               IN  {ids[i] : i \in DOMAIN ids}]
                 has_row(c, id) ==
                     \E r \in DOMAIN cluster_comments' :
                        cluster_comments'[r] = [cluster_id |-> c, comment_id |-> id]
             IN  \A id \in DOMAIN comments :
                    LET groups_of == {k \in DOMAIN groups : id \in members[k]}
                    IN  /\ \A k \in groups_of : has_row(first_id + k - 1, id)
                        /\ groups_of # {} =>
                              \E k \in groups_of :
                                 /\ \A j \in groups_of : j <= k
                                 /\ comments'[id].cluster_id = first_id + k - 1
                        /\ comments'[id].cluster_id # comments[id].cluster_id =>
                              /\ comments'[id].cluster_id \in last'.created
                              /\ has_row(comments'[id].cluster_id, id)]_vars

\* C30 happens: a run answered 200 and one comment has membership rows in
\* two clusters of the run and carries the id of the later one.
C30_Witness ==
    /\ last.op = "cluster_comments" /\ last.code = 200 /\ ~last.faulted
    /\ \E id \in last.fetched, c \in last.created, d \in last.created :
          /\ c < d
          /\ clusters_of(id, last.created) = {c, d}
          /\ comments[id].cluster_id = d

====
